---- MODULE Spec2Model ----
(***************************************************************************)
(* A model of media-sync: the MediaSync coordinator (src/src/media-sync.ts) *)
(* and the MediaElementWrapper track facade, running on one event loop.    *)
(*                                                                         *)
(* Every action is one task of the event loop: a stimulus from outside     *)
(* (a user acting on a media element, a call of the public API), the       *)
(* delivery of one queued media-element task (a native event, the          *)
(* settling of a play() promise), or one timer callback.  Handlers are     *)
(* translated as functions from a state record to a state record so that   *)
(* the calls a handler makes compose in the order of the code.             *)
(*                                                                         *)
(* Time is kept as the milliseconds left on each pending timer.  Media     *)
(* positions are integers in milliseconds.                                 *)
(***************************************************************************)
EXTENDS Integers, Sequences, FiniteSets, TLC

\* ---------------------------------------------------------------- bounds
NumTracks == 2
NumTargets == 2
MaxStimuli == 2
MaxSamples == 1

\* ------------------------------------------------------ program constants
SEEK_DEBOUNCE_DELAY == 10
RATE_REENABLE_DELAY == 10
HAVE_NOTHING == 0
HAVE_METADATA == 1
HAVE_CURRENT_DATA == 2
HAVE_FUTURE_DATA == 3
HAVE_ENOUGH_DATA == 4
DURATION_MS == 100000
ENDED_EPSILON_MS == 100
END_CLAMP_MS == 50

SEEK_REENABLE_DELAY == SEEK_DEBOUNCE_DELAY * 2
TickMs == SEEK_DEBOUNCE_DELAY \div 2

Tracks == 1..NumTracks
MainTrack == 1
SeekTargets == {1000 * k : k \in 1..NumTargets}
Times == {0} \cup SeekTargets
Rates == {1, 2}
EventTypes == {"seeking", "play", "pause", "ratechange"}
BufferingEvents == {"emptied", "loadedmetadata", "loadeddata", "canplay", "canplaythrough"}
ReadyStates == HAVE_NOTHING..HAVE_ENOUGH_DATA
useWebAudio == TRUE
driftCorrectionEnabled == TRUE

VARIABLES
  \* host media elements
  paused, currentTime, playbackRate, readyState, autoplayBlocked,
  duration,           \* per element: the length of its resource
  nativeQ,            \* per element: its queued media-element tasks, FIFO
  \* MediaElementWrapper
  isMain,             \* per track: the wrapper was constructed as the main one
  emitEvents,         \* per track and event type: TRUE = relayed, FALSE = suppressed
  debounceTimer,      \* per track: the pending debounced seeking call
  \* MediaSync
  disabled, isSyncingSeeking, audioContext,
  driftSamplingIntervalId, driftCorrectionIntervalId, driftSamples,
  lastReadyState, isWaitingForData,
  intervals,          \* the host's live setInterval timers of each drift process
  stale,              \* the wrappers an earlier call of initialize() left on the elements
  loop,               \* the group's loop flag (_loop)
  trackLoop,          \* per element: its loop property
  \* pending callbacks of MediaSync
  seekTimers, rateTimers, pauseTimers, playTimers, initTimer,
  playOps,            \* playTracks calls awaiting Promise.all(playPromises)
  resumeOps,          \* playTracks calls awaiting audioContext.resume()
  \* bookkeeping of the run
  budget,             \* stimuli the environment may still issue
  last,               \* the task that ran last
  acts,               \* the calls on tracks made by the coordinator in that task
  dispatched,         \* the group-level events dispatched in that task
  calls,              \* play() calls per track since the last stimulus (saturating)
  canplaythroughs,    \* group canplaythrough events since the last stimulus (saturating)
  stim,               \* the last stimulus
  disabledPhase,      \* "ignored": a track's event arrived while disabled;
                      \* "reenabled": disabled was switched to false after that
  stalledPlaying,     \* every track was playing when the last waiting event arrived
  isConnected         \* the group element is in the document (no disconnectedCallback yet)

vars == <<paused, currentTime, playbackRate, readyState, autoplayBlocked, duration, nativeQ,
          isMain, emitEvents, debounceTimer, disabled, isSyncingSeeking, audioContext,
          driftSamplingIntervalId, driftCorrectionIntervalId, driftSamples,
          lastReadyState, isWaitingForData, intervals, stale, loop, trackLoop,
          seekTimers, rateTimers, pauseTimers, playTimers, initTimer,
          playOps, resumeOps, budget, last, acts, dispatched, calls, canplaythroughs, stim,
          disabledPhase, stalledPlaying, isConnected>>

\* The state as one record, for the handlers to transform.
St ==
  [paused |-> paused, currentTime |-> currentTime, playbackRate |-> playbackRate,
   readyState |-> readyState, autoplayBlocked |-> autoplayBlocked, nativeQ |-> nativeQ,
   isMain |-> isMain, emitEvents |-> emitEvents, debounceTimer |-> debounceTimer,
   disabled |-> disabled, isSyncingSeeking |-> isSyncingSeeking,
   audioContext |-> audioContext,
   driftSamplingIntervalId |-> driftSamplingIntervalId,
   driftCorrectionIntervalId |-> driftCorrectionIntervalId,
   driftSamples |-> driftSamples,
   lastReadyState |-> lastReadyState, isWaitingForData |-> isWaitingForData,
   intervals |-> intervals, stale |-> stale,
   loop |-> loop, trackLoop |-> trackLoop,
   seekTimers |-> seekTimers, rateTimers |-> rateTimers,
   pauseTimers |-> pauseTimers, playTimers |-> playTimers, initTimer |-> initTimer,
   playOps |-> playOps, resumeOps |-> resumeOps,
   acts |-> <<>>, dispatched |-> <<>>, calls |-> calls,
   canplaythroughs |-> canplaythroughs]

\* The handler's result becomes the next state.
Becomes(s) ==
  \E r \in {s} :
    /\ duration' = duration
    /\ paused' = r.paused
    /\ currentTime' = r.currentTime
    /\ playbackRate' = r.playbackRate
    /\ readyState' = r.readyState
    /\ autoplayBlocked' = r.autoplayBlocked
    /\ nativeQ' = r.nativeQ
    /\ isMain' = r.isMain
    /\ emitEvents' = r.emitEvents
    /\ debounceTimer' = r.debounceTimer
    /\ disabled' = r.disabled
    /\ isSyncingSeeking' = r.isSyncingSeeking
    /\ audioContext' = r.audioContext
    /\ driftSamplingIntervalId' = r.driftSamplingIntervalId
    /\ driftCorrectionIntervalId' = r.driftCorrectionIntervalId
    /\ driftSamples' = r.driftSamples
    /\ lastReadyState' = r.lastReadyState
    /\ isWaitingForData' = r.isWaitingForData
    /\ intervals' = r.intervals
    /\ stale' = r.stale
    /\ loop' = r.loop
    /\ trackLoop' = r.trackLoop
    /\ seekTimers' = r.seekTimers
    /\ rateTimers' = r.rateTimers
    /\ pauseTimers' = r.pauseTimers
    /\ playTimers' = r.playTimers
    /\ initTimer' = r.initTimer
    /\ playOps' = r.playOps
    /\ resumeOps' = r.resumeOps
    /\ acts' = r.acts
    /\ dispatched' = r.dispatched
    /\ calls' = r.calls
    /\ canplaythroughs' = r.canplaythroughs

Max(a, b) == IF a >= b THEN a ELSE b
Abs(x) == IF x >= 0 THEN x ELSE -x
NoTimer == [on |-> FALSE, left |-> 0, time |-> 0, gate |-> TRUE, burst |-> 0]
NoCalls == [t \in Tracks |-> 0]

\* No wrapper of an earlier initialize() exists.
NoStale ==
  [on |-> FALSE,
   emitEvents |-> [t \in Tracks |-> [e \in EventTypes |-> TRUE]],
   debounceTimer |-> [t \in Tracks |-> NoTimer]]

\* The tracks of a set in the order of this.mediaElements.
TrackSeq(targets) == SelectSeq([i \in 1..NumTracks |-> i], LAMBDA i : i \in targets)


\* ------------------------------------------------------------- construction
\* initialize: the first of the elements is handed to setupMediaElements as
\* the main one.
initializeMain == Head(TrackSeq(Tracks))

\* A setup that marks every wrapper as the main one.
setupIsMainAll(element, main) == TRUE

\* setupMediaElements: "const isMain = element === mainElement".
setupIsMain(element, main) == element = main

\* get mainElement: the first wrapper marked as main, or else the first one.
mainElementOf(s) ==
  LET marked == SelectSeq(TrackSeq(Tracks), LAMBDA t : s.isMain[t])
  IN IF marked # <<>> THEN Head(marked) ELSE Head(TrackSeq(Tracks))

\* ------------------------------------------------------------ host element
\* wrapper.duration
Duration(t) == duration[t]

GateOf(op) ==
  CASE op = "play" -> "play"
    [] op = "pause" -> "pause"
    [] op = "seek" -> "seeking"
    [] op = "rate" -> "ratechange"

\* Bookkeeping of one call the coordinator makes on a track: the call, its
\* argument, and whether the track's gate for the matching event type was
\* open (relaying) when the call was made.
Note(s, op, t, arg) ==
  [s EXCEPT !.acts = Append(@, <<op, t, arg, s.emitEvents[t][GateOf(op)]>>),
            !.calls[t] = IF op # "play" \/ @ >= 2 THEN @ ELSE @ + 1]

Enqueue(s, t, task) == [s EXCEPT !.nativeQ[t] = Append(@, task)]

\* HTMLMediaElement.play(): a paused element starts and queues its play
\* event; the returned promise is settled by a later task of the element,
\* unless the host refuses to start playback and rejects at once.
PlayRejected(s, t) == s.paused[t] /\ t \in s.autoplayBlocked

\* An element that has ended playback seeks to its start when it is played.
elementRewind(s, t) ==
  IF s.currentTime[t] >= Duration(t)
    THEN Enqueue([s EXCEPT !.currentTime[t] = 0], t, "seeking")
    ELSE s

elementPlay(s, t) ==
  IF PlayRejected(s, t) THEN s
  ELSE IF s.paused[t]
    THEN Enqueue(Enqueue([elementRewind(s, t) EXCEPT !.paused[t] = FALSE], t, "play"),
                 t, "resolved")
    ELSE Enqueue(elementRewind(s, t), t, "resolved")

\* The events an element queues when its readyState goes from old to new:
\* emptied when its resource is reset, the loaded* and canplay* events on
\* the way up, waiting when a playing element runs out of data, and nothing
\* for any other drop.
readinessEvents(old, new, playing) ==
  IF new = HAVE_NOTHING THEN <<"emptied">>
  ELSE (IF old < HAVE_METADATA THEN <<"loadedmetadata">> ELSE <<>>)
    \o (IF old < HAVE_CURRENT_DATA /\ new >= HAVE_CURRENT_DATA
          THEN <<"loadeddata">> ELSE <<>>)
    \o (IF old < HAVE_FUTURE_DATA /\ new >= HAVE_FUTURE_DATA
          THEN <<"canplay">> ELSE <<>>)
    \o (IF old < HAVE_ENOUGH_DATA /\ new = HAVE_ENOUGH_DATA
          THEN <<"canplaythrough">> ELSE <<>>)
    \o (IF old >= HAVE_FUTURE_DATA /\ new < HAVE_FUTURE_DATA /\ playing
          THEN <<"waiting">> ELSE <<>>)

\* The element's readyState changes.  A reset resource also pauses the
\* element and rewinds it.
elementSetReadyState(s, t, level) ==
  LET evs == readinessEvents(s.readyState[t], level, ~s.paused[t])
      s1 == [s EXCEPT !.readyState[t] = level, !.nativeQ[t] = @ \o evs]
  IN IF level = HAVE_NOTHING
       THEN [s1 EXCEPT !.paused[t] = TRUE, !.currentTime[t] = 0]
       ELSE s1

\* Playback of a playing element progresses by d ms on its own clock; no
\* event that the wrapper listens to is fired.
elementAdvance(s, t, d) == [s EXCEPT !.currentTime[t] = @ + d]

\* Playback of the element reaches the end of its resource: the element
\* queues the task that pauses it and fires pause, then ended.
elementReachEnd(s, t) ==
  Enqueue(Enqueue([s EXCEPT !.currentTime[t] = Duration(t)], t, "endpause"), t, "ended")

\* HTMLMediaElement.pause()
elementPause(s, t) ==
  IF s.paused[t] THEN s
  ELSE Enqueue([s EXCEPT !.paused[t] = TRUE], t, "pause")

\* HTMLMediaElement.currentTime = x: the seek always queues a seeking event.
elementSetCurrentTime(s, t, x) ==
  Enqueue([s EXCEPT !.currentTime[t] = x], t, "seeking")

\* HTMLMediaElement.playbackRate = r: ratechange is queued when the value changes.
elementSetPlaybackRate(s, t, r) ==
  IF s.playbackRate[t] = r THEN s
  ELSE Enqueue([s EXCEPT !.playbackRate[t] = r], t, "ratechange")

\* ------------------------------------------------------ MediaElementWrapper
wrapperPlay(s, t) == elementPlay(Note(s, "play", t, 0), t)

wrapperPause(s, t) == elementPause(Note(s, "pause", t, 0), t)

\* A setter that hands every target to the element as it is.
wrapperSetCurrentTimeUnclamped(s, t, time) ==
  elementSetCurrentTime(Note(s, "seek", t, time), t, time)

\* A setter that stops twice the ended tolerance short of the end.
wrapperSetCurrentTimeShort(s, t, time) ==
  IF time >= Duration(t)
    THEN elementSetCurrentTime(Note(s, "seek", t, time), t,
                               Max(0, Duration(t) - 2 * ENDED_EPSILON_MS))
    ELSE elementSetCurrentTime(Note(s, "seek", t, time), t, time)

wrapperSetCurrentTime(s, t, time) ==
  IF time >= Duration(t)
    THEN elementSetCurrentTime(Note(s, "seek", t, time), t, Max(0, Duration(t) - END_CLAMP_MS))
    ELSE elementSetCurrentTime(Note(s, "seek", t, time), t, time)

wrapperSetPlaybackRate(s, t, rate) ==
  elementSetPlaybackRate(Note(s, "rate", t, rate), t, rate)

isEnded(s, t) == Abs(s.currentTime[t] - Duration(t)) < ENDED_EPSILON_MS

\* wrapper.ended: true when |currentTime - duration| < 0.1 s.
wrapperEnded(s, t) == Abs(s.currentTime[t] - Duration(t)) < ENDED_EPSILON_MS

\* wrapper.readyState
wrapperReadyState(s, t) == s.readyState[t]

suppressEventType(s, t, name) == [s EXCEPT !.emitEvents[t][name] = FALSE]

enableEventType(s, t, name) == [s EXCEPT !.emitEvents[t][name] = TRUE]

\* The test each native-event listener of the wrapper makes before it
\* dispatches the semantic event.
\* A wrapper that relays whatever its gates say.
alwaysEmits(s, t, name) == TRUE

wrapperEmits(s, t, name) == s.emitEvents[t][name]

\* ----------------------------------------------------------------- MediaSync
RECURSIVE suppressEach(_, _, _)
suppressEach(s, seq, name) ==
  IF seq = <<>> THEN s
  ELSE suppressEach(suppressEventType(s, Head(seq), name), Tail(seq), name)

RECURSIVE enableEach(_, _, _)
enableEach(s, seq, name) ==
  IF seq = <<>> THEN s
  ELSE enableEach(enableEventType(s, Head(seq), name), Tail(seq), name)

suppressEvents(s, name) == suppressEach(s, TrackSeq(Tracks), name)

enableEvents(s, name) == enableEach(s, TrackSeq(Tracks), name)

otherTracks(t) == Tracks \ {t}

\* Math.min over the readiness of the elements of a sequence.
RECURSIVE MathMin(_, _)
MathMin(s, seq) ==
  IF Len(seq) = 1 THEN wrapperReadyState(s, Head(seq))
  ELSE LET m == MathMin(s, Tail(seq))
           h == wrapperReadyState(s, Head(seq))
       IN IF h < m THEN h ELSE m

\* A getter that reports the readiness of the first element.
readyStateOfFirst(s, mediaElements) ==
  IF mediaElements = {} THEN HAVE_NOTHING
  ELSE wrapperReadyState(s, Head(TrackSeq(mediaElements)))

\* get readyState, for a group made of the given elements.
readyStateOf(s, mediaElements) ==
  IF mediaElements = {} THEN HAVE_NOTHING
  ELSE MathMin(s, TrackSeq(mediaElements))

groupReadyState(s) == readyStateOf(s, Tracks)

allPlaying(s) == \A t \in Tracks : ~s.paused[t]

isAnyMediaPlaying(s) == \E t \in Tracks : ~s.paused[t]

Dispatch(s, name, detail) ==
  [s EXCEPT !.dispatched = Append(@, <<name, detail>>),
            !.canplaythroughs = IF name # "canplaythrough" \/ @ >= 2 THEN @ ELSE @ + 1]

\* window.setInterval and window.clearInterval for the timers of one drift
\* process; the count of live timers saturates at MaxIntervals.
MaxIntervals == 2

setInterval(s, process) ==
  [s EXCEPT !.intervals[process] = IF @ < MaxIntervals THEN @ + 1 ELSE @]

clearInterval(s, process) ==
  [s EXCEPT !.intervals[process] = IF @ > 0 THEN @ - 1 ELSE @]

\* startDriftSampling without its test of _disabled.
startDriftSamplingUnguarded(s) ==
  IF s.driftSamplingIntervalId THEN s
  ELSE [setInterval(s, "sampling") EXCEPT !.driftSamplingIntervalId = TRUE]

\* startDriftSampling without its test of an interval that already runs.
startDriftSamplingAgain(s) ==
  IF s.disabled THEN s
  ELSE [setInterval(s, "sampling") EXCEPT !.driftSamplingIntervalId = TRUE]

startDriftSampling(s) ==
  IF s.disabled \/ s.driftSamplingIntervalId THEN s
  ELSE [setInterval(s, "sampling") EXCEPT !.driftSamplingIntervalId = TRUE]

stopDriftSampling(s) ==
  IF s.driftSamplingIntervalId
    THEN [clearInterval(s, "sampling") EXCEPT !.driftSamplingIntervalId = FALSE]
    ELSE s

startDriftCorrection(s) ==
  IF s.disabled \/ s.driftCorrectionIntervalId \/ ~driftCorrectionEnabled THEN s
  ELSE [setInterval(s, "correction") EXCEPT !.driftCorrectionIntervalId = TRUE]

stopDriftCorrection(s) ==
  IF s.driftCorrectionIntervalId
    THEN [clearInterval(s, "correction") EXCEPT !.driftCorrectionIntervalId = FALSE]
    ELSE s

\* new AudioContext(): a context starts in the state "suspended".
initAudioContext(s) ==
  IF s.disabled \/ ~useWebAudio \/ s.audioContext # "null" THEN s
  ELSE [s EXCEPT !.audioContext = "suspended"]

\* audioContext.close(): the resume() promises still pending belong to a
\* closed context from now on.
cleanupAudioContext(s) ==
  IF s.audioContext = "null" THEN s
  ELSE [s EXCEPT !.audioContext = "null",
                 !.resumeOps = [i \in 1..Len(@) |-> [@[i] EXCEPT !.closed = TRUE]]]

RECURSIVE seekEach(_, _, _)
seekEach(s, seq, time) ==
  IF seq = <<>> THEN s
  ELSE seekEach(wrapperSetCurrentTime(s, Head(seq), time), Tail(seq), time)

seekTracks(s, mediaElements, time) ==
  IF mediaElements = {} THEN s
  ELSE IF s.disabled THEN s
  ELSE LET s1 == stopDriftCorrection(stopDriftSampling(s))
           s2 == suppressEvents(s1, "seeking")
           s3 == [s2 EXCEPT !.isSyncingSeeking = TRUE]
           s4 == seekEach(s3, TrackSeq(mediaElements), time)
       IN [s4 EXCEPT !.seekTimers = Append(@, SEEK_REENABLE_DELAY)]

\* The callback of the timer seekTracks sets.
seekTracksTimeout(s) ==
  LET s1 == enableEvents([s EXCEPT !.isSyncingSeeking = FALSE], "seeking")
  IN IF allPlaying(s1) THEN startDriftCorrection(startDriftSampling(s1)) ELSE s1

RECURSIVE pauseEach(_, _)
pauseEach(s, seq) ==
  IF seq = <<>> THEN s ELSE pauseEach(wrapperPause(s, Head(seq)), Tail(seq))

\* pauseTracks without its two calls that stop the drift engine.
pauseTracksKeepingDrift(s, mediaElements) ==
  IF mediaElements = {} THEN s
  ELSE LET s1 == suppressEvents(s, "pause")
           s2 == pauseEach(s1, TrackSeq(mediaElements))
       IN [s2 EXCEPT !.pauseTimers = @ + 1]

pauseTracks(s, mediaElements) ==
  IF mediaElements = {} THEN s
  ELSE LET s1 == suppressEvents(s, "pause")
           s2 == pauseEach(s1, TrackSeq(mediaElements))
           s3 == stopDriftCorrection(stopDriftSampling(s2))
       IN [s3 EXCEPT !.pauseTimers = @ + 1]

RECURSIVE rateEach(_, _, _)
rateEach(s, seq, rate) ==
  IF seq = <<>> THEN s
  ELSE rateEach(wrapperSetPlaybackRate(s, Head(seq), rate), Tail(seq), rate)

setPlaybackRateTracks(s, mediaElements, rate) ==
  IF mediaElements = {} THEN s
  ELSE IF s.disabled THEN s
  ELSE LET s1 == suppressEvents(s, "ratechange")
           s2 == rateEach(s1, TrackSeq(mediaElements), rate)
       IN [s2 EXCEPT !.rateTimers = Append(@, RATE_REENABLE_DELAY)]

\* playTracks after "await Promise.all(playPromises)".
\* The end of playTracks without its setTimeout(enableEvents, 0).
playTracksSettledNoTimer(s) ==
  IF allPlaying(s) THEN startDriftCorrection(startDriftSampling(s)) ELSE s

\* The continuation of playTracks without its test that every track plays.
playTracksSettledAlways(s) ==
  [startDriftCorrection(startDriftSampling(s)) EXCEPT !.playTimers = @ + 1]

playTracksSettled(s) ==
  LET s1 == IF allPlaying(s) THEN startDriftCorrection(startDriftSampling(s)) ELSE s
  IN [s1 EXCEPT !.playTimers = @ + 1]

RECURSIVE playEach(_, _)
playEach(s, seq) ==
  IF seq = <<>> THEN s ELSE playEach(wrapperPlay(s, Head(seq)), Tail(seq))

\* playTracks with play() calls that stop at the first one the host rejects
\* and go to the catch block.
RECURSIVE playUntilRejected(_, _)
playUntilRejected(s, seq) ==
  IF seq = <<>> THEN s
  ELSE IF PlayRejected(s, Head(seq)) THEN enableEvents(wrapperPlay(s, Head(seq)), "play")
  ELSE playUntilRejected(wrapperPlay(s, Head(seq)), Tail(seq))

playTracksPlayAbort(s, mediaElements) ==
  LET pending == {t \in mediaElements : ~PlayRejected(s, t)}
      s1 == playUntilRejected(s, TrackSeq(mediaElements))
  IN IF pending = mediaElements THEN [s1 EXCEPT !.playOps = Append(@, pending)]
     ELSE s1

\* playTracks from "mediaElements.map(media => media.play())" on: the calls,
\* then the await of the promises that did not settle at once.
playTracksPlay(s, mediaElements) ==
  LET pending == {t \in mediaElements : ~PlayRejected(s, t)}
      s1 == playEach(s, TrackSeq(mediaElements))
  IN IF pending = {} THEN playTracksSettled(s1)
     ELSE [s1 EXCEPT !.playOps = Append(@, pending)]

\* The test playTracks makes before "await this.audioContext.resume()".
mustResumeAudio(s) == useWebAudio /\ s.audioContext = "suspended"

\* playTracks without its test of the group's readiness.
playTracksUnready(s, mediaElements) ==
  IF mediaElements = {} THEN s
  ELSE LET s1 == suppressEvents(s, "play")
       IN IF mustResumeAudio(s1)
            THEN [s1 EXCEPT !.resumeOps =
                    Append(@, [targets |-> mediaElements, closed |-> FALSE])]
            ELSE playTracksPlay(s1, mediaElements)

playTracks(s, mediaElements) ==
  IF mediaElements = {} THEN s
  ELSE IF groupReadyState(s) < HAVE_ENOUGH_DATA THEN s
  ELSE LET s1 == suppressEvents(s, "play")
       IN IF mustResumeAudio(s1)
            THEN [s1 EXCEPT !.resumeOps =
                    Append(@, [targets |-> mediaElements, closed |-> FALSE])]
            ELSE playTracksPlay(s1, mediaElements)

\* playTracks when audioContext.resume() rejects: the catch block.
playTracksCatch(s) == enableEvents(s, "play")

\* The promise of one element's play() settles: the oldest playTracks call
\* still waiting for that element goes on when it was its last one.
playPromiseSettled(s, t) ==
  LET idx == {i \in 1..Len(s.playOps) : t \in s.playOps[i]}
  IN IF idx = {} THEN s
     ELSE LET i == CHOOSE j \in idx : \A k \in idx : j <= k
              rest == s.playOps[i] \ {t}
          IN IF rest # {} THEN [s EXCEPT !.playOps[i] = rest]
             ELSE playTracksSettled(
                    [s EXCEPT !.playOps = SubSeq(@, 1, i - 1) \o SubSeq(@, i + 1, Len(@))])

\* --------------------------------------------- listeners of setupMediaElements
\* A listener that mirrors onto every track, the source included.
mirrorAll(t) == Tracks

\* The tracks a listener mirrors an event of track t onto.
mirrorTargets(t) == otherTracks(t)

onSeeking(s, t, seekTime) ==
  IF s.disabled THEN s
  ELSE IF s.isSyncingSeeking THEN s
  ELSE seekTracks(Dispatch(s, "seeking", seekTime), mirrorTargets(t), seekTime)

onPlay(s, t) ==
  IF s.disabled THEN s
  ELSE IF groupReadyState(s) < HAVE_ENOUGH_DATA
    THEN LET s1 == wrapperPause(suppressEvents(s, "pause"), t)
         IN [s1 EXCEPT !.pauseTimers = @ + 1]
  ELSE playTracks(Dispatch(s, "play", 0), mirrorTargets(t))

\* The pause listener without its test of _disabled.
onPauseUnguarded(s, t) ==
  IF wrapperEnded(s, t) THEN s
  ELSE pauseTracks(Dispatch(s, "pause", 0), mirrorTargets(t))

\* The pause listener without its test of the track's ended.
onPauseOfEnded(s, t) ==
  IF s.disabled THEN s
  ELSE pauseTracks(Dispatch(s, "pause", 0), mirrorTargets(t))

onPause(s, t) ==
  IF s.disabled THEN s
  ELSE IF wrapperEnded(s, t) THEN s
  ELSE pauseTracks(Dispatch(s, "pause", 0), mirrorTargets(t))

onRateChange(s, t, rate) ==
  IF s.disabled THEN s
  ELSE setPlaybackRateTracks(Dispatch(s, "ratechange", rate), mirrorTargets(t), rate)

\* ------------------------------------------------------------- public API
groupPlay(s) == IF s.disabled THEN s ELSE playTracks(s, Tracks)

\* pause() without its test of _disabled.
groupPauseUnguarded(s) == pauseTracks(s, Tracks)

groupPause(s) == IF s.disabled THEN s ELSE pauseTracks(s, Tracks)

groupSetCurrentTime(s, time) == IF s.disabled THEN s ELSE seekTracks(s, Tracks, time)

groupSetPlaybackRate(s, rate) ==
  IF s.disabled THEN s ELSE setPlaybackRateTracks(s, Tracks, rate)

disconnectedCallback(s) ==
  cleanupAudioContext(stopDriftCorrection(stopDriftSampling(s)))

attributeChangedCallback(s, newDisabled) ==
  LET s1 == [s EXCEPT !.disabled = newDisabled]
  IN IF newDisabled
       THEN cleanupAudioContext(stopDriftCorrection(stopDriftSampling(s1)))
     ELSE IF isAnyMediaPlaying(s1)
       THEN initAudioContext(startDriftCorrection(startDriftSampling(s1)))
     ELSE s1


\* ------------------------------------------------------------- drift engine
DRIFT_CORRECTION_THRESHOLD == 30

mainElement == MainTrack

\* sampleDrift reporting the main track as ended like any other track.
sampleDriftOfEndedMain(s, length) ==
  IF s.disabled \/ length <= 1 THEN s
  ELSE IF s.paused[mainElement] THEN s
  ELSE LET mainTime == s.currentTime[mainElement]
           drifts == [t \in Tracks |->
                        IF wrapperEnded(s, t)
                          THEN [ended |-> TRUE, delta |-> <<>>]
                          ELSE [ended |-> FALSE,
                                delta |-> <<s.currentTime[t] - mainTime>>]]
       IN [s EXCEPT !.driftSamples =
             Append(@, [type |-> "sample", currentTime |-> mainTime,
                        drifts |-> drifts, corrections |-> <<>>])]

\* sampleDrift in a group of length media elements.
sampleDriftOf(s, length) ==
  IF s.disabled \/ length <= 1 THEN s
  ELSE IF s.paused[mainElement] THEN s
  ELSE LET mainTime == s.currentTime[mainElement]
           drifts == [t \in Tracks |->
                        IF t # mainElement /\ wrapperEnded(s, t)
                          THEN [ended |-> TRUE, delta |-> <<>>]
                          ELSE [ended |-> FALSE,
                                delta |-> <<IF t = mainElement THEN 0
                                            ELSE s.currentTime[t] - mainTime>>]]
       IN [s EXCEPT !.driftSamples =
             Append(@, [type |-> "sample", currentTime |-> mainTime,
                        drifts |-> drifts, corrections |-> <<>>])]

\* A sampler that ignores whether the main track is paused.
sampleDriftOfPaused(s) ==
  LET playing == [s EXCEPT !.paused = [t \in Tracks |-> FALSE]]
  IN [s EXCEPT !.driftSamples = sampleDriftOf(playing, NumTracks).driftSamples]

sampleDrift(s) == sampleDriftOf(s, NumTracks)

\* The filter of correctDrift with a drift equal to the threshold counted in.
driftedTracksAtThreshold(s) ==
  {t \in otherTracks(mainElement) :
     /\ ~wrapperEnded(s, t)
     /\ Abs(s.currentTime[t] - s.currentTime[mainElement]) >= DRIFT_CORRECTION_THRESHOLD}

\* The filter of correctDrift without its test of the track's ended.
driftedTracksWithEnded(s) ==
  {t \in otherTracks(mainElement) :
     Abs(s.currentTime[t] - s.currentTime[mainElement]) > DRIFT_CORRECTION_THRESHOLD}

driftedTracks(s) ==
  {t \in otherTracks(mainElement) :
     /\ ~wrapperEnded(s, t)
     /\ Abs(s.currentTime[t] - s.currentTime[mainElement]) > DRIFT_CORRECTION_THRESHOLD}

\* correctDrift in a group of length media elements.
correctDriftOf(s, length) ==
  IF s.disabled \/ length <= 1 THEN s
  ELSE IF s.isSyncingSeeking THEN s
  ELSE IF s.paused[mainElement] THEN s
  ELSE LET mainTime == s.currentTime[mainElement]
           drifted == driftedTracks(s)
       IN IF drifted = {} THEN s
          ELSE seekTracks(
                 [s EXCEPT !.driftSamples =
                    Append(@, [type |-> "correction", currentTime |-> mainTime,
                               drifts |-> <<>>,
                               corrections |-> [t \in Tracks |-> t \in drifted]])],
                 drifted, mainTime)

\* A corrector that ignores a seek sync in flight.
correctDriftWhileSeeking(s) ==
  correctDriftOf([s EXCEPT !.isSyncingSeeking = FALSE], NumTracks)

correctDrift(s) == correctDriftOf(s, NumTracks)

\* --------------------------------------------------------------------- loop
\* wrapper.loop = value
wrapperSetLoop(s, t, value) == [s EXCEPT !.trackLoop[t] = value]

\* An update that leaves the loop property of every element as it is.
updateLoopStateKeeping(s) == s

\* Looping is switched off on every element but the main one.
updateLoopStateForNonMainElements(s) ==
  [s EXCEPT !.trackLoop = [t \in Tracks |-> IF t = mainElement THEN @[t] ELSE FALSE]]

\* attributeChangedCallback for the loop attribute: present = true.
loopAttributeChanged(s, present) ==
  updateLoopStateForNonMainElements(
    wrapperSetLoop([s EXCEPT !.loop = present], mainElement, present))

\* set loop: the flag, the main element's loop, the reflected attribute.
groupSetLoop(s, value) ==
  loopAttributeChanged(wrapperSetLoop([s EXCEPT !.loop = value], mainElement, value), value)

\* The listener of a track's loopchange event.
onLoopChange(s, t, value) ==
  IF t # mainElement \/ value = s.loop THEN s ELSE groupSetLoop(s, value)

\* ---------------------------------------------------------------- readiness
\* get paused
groupPaused(s) == s.paused[mainElement]

ReadyEventName(level) ==
  CASE level = HAVE_NOTHING -> "emptied"
    [] level = HAVE_METADATA -> "loadedmetadata"
    [] level = HAVE_CURRENT_DATA -> "loadeddata"
    [] level = HAVE_FUTURE_DATA -> "canplay"
    [] level = HAVE_ENOUGH_DATA -> "canplaythrough"

\* handleReadyStateChange without its comparison with lastReadyState.
handleReadyStateChangeAlways(s) ==
  Dispatch([s EXCEPT !.lastReadyState = groupReadyState(s)],
           ReadyEventName(groupReadyState(s)), 0)

handleReadyStateChange(s) ==
  LET currentReadyState == groupReadyState(s)
  IN IF currentReadyState = s.lastReadyState THEN s
     ELSE LET s1 == Dispatch([s EXCEPT !.lastReadyState = currentReadyState],
                             ReadyEventName(currentReadyState), 0)
          IN IF currentReadyState = HAVE_ENOUGH_DATA /\ s1.isWaitingForData /\ ~s1.disabled
               THEN [(IF ~groupPaused(s1) THEN groupPlay(s1) ELSE s1)
                       EXCEPT !.isWaitingForData = FALSE]
               ELSE s1

\* The listener of a track's waiting event.
onWaiting(s, t) ==
  Dispatch(groupPause([s EXCEPT !.isWaitingForData = TRUE]), "waiting", 0)

\* An ended listener that treats every track as the main one.
onEndedOfAny(s, t) ==
  Dispatch(IF s.disabled THEN s ELSE pauseTracks(s, otherTracks(t)), "ended", 0)

\* The listener of a track's ended event.
onEnded(s, t) ==
  IF t # mainElement THEN s
  ELSE Dispatch(IF s.disabled THEN s ELSE pauseTracks(s, otherTracks(t)), "ended", 0)

\* ------------------------------------------------------------------ actions
Quiescent ==
  /\ \A t \in Tracks : nativeQ[t] = <<>> /\ ~debounceTimer[t].on
  /\ seekTimers = <<>> /\ rateTimers = <<>>
  /\ pauseTimers = 0 /\ playTimers = 0 /\ ~initTimer
  /\ playOps = <<>> /\ resumeOps = <<>>

\* A task: its kind, the track and event type it is about, its argument, for
\* a native event the state of the track's gate for that event type when the
\* event fired on the element (TRUE = relaying), and for a debounced call the
\* number of native events merged into it.
GatedTask(kind, t, ev, arg, gate) ==
  [kind |-> kind, track |-> t, ev |-> ev, arg |-> arg, gate |-> gate, merged |-> 0]

Task(kind, t, ev, arg) == GatedTask(kind, t, ev, arg, TRUE)

\* The task hands a semantic event of a track to the coordinator's listener.
SemanticEvent(task) ==
  \/ task.kind = "Native" /\ task.ev \in {"play", "pause", "ratechange"} /\ task.gate
  \/ task.kind = "Debounce" /\ emitEvents[task.track]["seeking"]

\* One task of the event loop that is no stimulus.
Step(s, task) ==
  /\ Becomes(s)
  /\ last' = task
  /\ disabledPhase' = IF disabled /\ SemanticEvent(task) THEN "ignored" ELSE disabledPhase
  /\ stalledPlaying' = IF task.kind = "Native" /\ task.ev = "waiting"
                         THEN \A t \in Tracks : ~paused[t]
                         ELSE stalledPlaying
  /\ UNCHANGED <<budget, stim, isConnected>>

\* One stimulus from outside the program.
Stimulus(s, task) ==
  /\ budget > 0
  /\ Becomes(s)
  /\ last' = task
  /\ budget' = budget - 1
  /\ stim' = [task |-> task, quiet |-> Quiescent, enabled |-> ~disabled,
              ready |-> groupReadyState(St) >= HAVE_ENOUGH_DATA]
  /\ disabledPhase' = IF disabledPhase = "ignored" /\ disabled /\ ~s.disabled
                        THEN "reenabled" ELSE disabledPhase
  /\ isConnected' = (isConnected /\ task.kind # "Disconnect")
  /\ UNCHANGED stalledPlaying

Fresh == [St EXCEPT !.calls = NoCalls, !.canplaythroughs = 0]

\* A user (or a script) acts on one media element directly.
UserPlay(t) ==
  /\ paused[t]
  /\ Stimulus(Enqueue([elementRewind(Fresh, t) EXCEPT !.paused[t] = FALSE], t, "play"),
              Task("UserPlay", t, "play", 0))

UserPause(t) ==
  /\ ~paused[t]
  /\ Stimulus(elementPause(Fresh, t), Task("UserPause", t, "pause", 0))

UserSeek(t, x) ==
  Stimulus(elementSetCurrentTime(Fresh, t, x), Task("UserSeek", t, "seeking", x))

UserRate(t, r) ==
  /\ playbackRate[t] # r
  /\ Stimulus(elementSetPlaybackRate(Fresh, t, r), Task("UserRate", t, "ratechange", r))

\* The host changes the readiness of one element.
SetReady(t, level) ==
  /\ readyState[t] # level
  /\ Stimulus(elementSetReadyState(Fresh, t, level), Task("SetReady", t, "", level))

\* A playing element reaches the end of its resource.
ReachEnd(t) ==
  /\ ~paused[t] /\ currentTime[t] < Duration(t)
  /\ Stimulus(elementReachEnd(Fresh, t), Task("ReachEnd", t, "ended", 0))

\* The clock of a playing element runs ahead by d ms.
Advance(t, d) ==
  /\ ~paused[t] /\ currentTime[t] + d < Duration(t)
  /\ Stimulus(elementAdvance(Fresh, t, d), Task("Advance", t, "", d))

\* The public API of the group.
GroupPlay == Stimulus(groupPlay(Fresh), Task("GroupPlay", 0, "play", 0))

GroupPause == Stimulus(groupPause(Fresh), Task("GroupPause", 0, "pause", 0))

GroupSeek(x) ==
  Stimulus(groupSetCurrentTime(Fresh, x), Task("GroupSeek", 0, "seeking", x))

GroupRate(r) ==
  Stimulus(groupSetPlaybackRate(Fresh, r), Task("GroupRate", 0, "ratechange", r))

\* The disabled attribute is set or removed (also by the disabled setter).
SetDisabled(v) ==
  /\ disabled # v
  /\ Stimulus(attributeChangedCallback(Fresh, v), Task("SetDisabled", 0, "", 0))

\* The loop property of the group is set.
SetLoop(value) ==
  Stimulus(groupSetLoop(Fresh, value), Task("SetLoop", 0, "", IF value THEN 1 ELSE 0))

\* The loop attribute of the group is set or removed.
LoopAttribute(present) ==
  /\ loop # present
  /\ Stimulus(loopAttributeChanged(Fresh, present),
              Task("LoopAttribute", 0, "", IF present THEN 1 ELSE 0))

\* A script sets the loop property of one element; the main track's wrapper
\* reports it with a loopchange event.
UserLoop(t, value) ==
  /\ trackLoop[t] # value
  /\ Stimulus(onLoopChange([Fresh EXCEPT !.trackLoop[t] = value], t, value),
              Task("UserLoop", t, "loopchange", IF value THEN 1 ELSE 0))

\* The group element is removed from the document.
Disconnect ==
  /\ isConnected
  /\ Stimulus(disconnectedCallback(Fresh), Task("Disconnect", 0, "", 0))

\* A debounce that keeps the arguments of the first call of a burst.
debounceLeading(s, t) ==
  [s EXCEPT !.debounceTimer[t] =
     [on |-> TRUE, left |-> SEEK_DEBOUNCE_DELAY,
      time |-> IF @.on THEN @.time ELSE s.currentTime[t],
      gate |-> s.emitEvents[t]["seeking"],
      burst |-> IF ~@.on THEN 1 ELSE IF @.burst < 2 THEN @.burst + 1 ELSE @.burst]]

\* The native seeking listener calls the debounced handler: the pending call,
\* if any, is replaced by one with the element's current time that is due
\* after the debounce delay.  burst counts the calls that were merged (up to
\* two).
debounce(s, t) ==
  [s EXCEPT !.debounceTimer[t] =
     [on |-> TRUE, left |-> SEEK_DEBOUNCE_DELAY, time |-> s.currentTime[t],
      gate |-> s.emitEvents[t]["seeking"],
      burst |-> IF ~@.on THEN 1 ELSE IF @.burst < 2 THEN @.burst + 1 ELSE @.burst]]

\* ---------------------------------------- wrappers of an earlier initialize()
\* initialize() called again on the same elements: setupMediaElements builds
\* new wrappers and stores them in this.mediaElements.  The wrappers of the
\* earlier call are not detached: they keep their listeners on the elements,
\* the coordinator's listeners on them, and the gates and the debounce timers
\* they had.
initialize(s) ==
  [s EXCEPT !.stale = [on |-> TRUE, emitEvents |-> s.emitEvents,
                       debounceTimer |-> s.debounceTimer],
            !.emitEvents = [t \in Tracks |-> [e \in EventTypes |-> TRUE]],
            !.debounceTimer = [t \in Tracks |-> NoTimer],
            !.isMain = [t \in Tracks |-> setupIsMain(t, initializeMain)],
            !.initTimer = IF useWebAudio THEN TRUE ELSE @]

\* otherTracks(wrapper) for a wrapper that is no longer in this.mediaElements.
staleTargets(t) == Tracks

\* The coordinator's listeners on the earlier wrapper of element t.
staleOnSeeking(s, t, seekTime) ==
  IF s.disabled THEN s
  ELSE IF s.isSyncingSeeking THEN s
  ELSE seekTracks(Dispatch(s, "seeking", seekTime), staleTargets(t), seekTime)

staleOnPlay(s, t) ==
  IF s.disabled THEN s
  ELSE IF groupReadyState(s) < HAVE_ENOUGH_DATA
    THEN LET s1 == wrapperPause(suppressEvents(s, "pause"), t)
         IN [s1 EXCEPT !.pauseTimers = @ + 1]
  ELSE playTracks(Dispatch(s, "play", 0), staleTargets(t))

staleOnPause(s, t) ==
  IF s.disabled THEN s
  ELSE IF wrapperEnded(s, t) THEN s
  ELSE pauseTracks(Dispatch(s, "pause", 0), staleTargets(t))

staleOnRateChange(s, t, rate) ==
  IF s.disabled THEN s
  ELSE setPlaybackRateTracks(Dispatch(s, "ratechange", rate), staleTargets(t), rate)

staleOnEnded(s, t) ==
  IF t # mainElement THEN s
  ELSE Dispatch(IF s.disabled THEN s ELSE pauseTracks(s, staleTargets(t)), "ended", 0)

staleDebounce(s, t) ==
  [s EXCEPT !.stale.debounceTimer[t] =
     [on |-> TRUE, left |-> SEEK_DEBOUNCE_DELAY, time |-> s.currentTime[t],
      gate |-> s.stale.emitEvents[t]["seeking"],
      burst |-> IF ~@.on THEN 1 ELSE IF @.burst < 2 THEN @.burst + 1 ELSE @.burst]]

\* A native event of element t reaches the listeners of its earlier wrapper,
\* which were added before those of the current one.
staleNativeTask(s, t, ev) ==
  IF ~s.stale.on THEN s
  ELSE CASE ev = "play" -> IF s.stale.emitEvents[t]["play"] THEN staleOnPlay(s, t) ELSE s
         [] ev = "pause" -> IF s.stale.emitEvents[t]["pause"] THEN staleOnPause(s, t) ELSE s
         [] ev = "ratechange" ->
              IF s.stale.emitEvents[t]["ratechange"]
                THEN staleOnRateChange(s, t, s.playbackRate[t]) ELSE s
         [] ev = "seeking" -> staleDebounce(s, t)
         [] ev \in BufferingEvents -> handleReadyStateChange(s)
         [] ev = "waiting" -> onWaiting(s, t)
         [] ev = "ended" -> staleOnEnded(s, t)
         [] OTHER -> s

\* The oldest queued task of one media element runs: a native event reaches
\* the wrapper's listener, or a play() promise settles.
nativeTask(s, t, ev) ==
  CASE ev = "play" -> IF wrapperEmits(s, t, "play") THEN onPlay(s, t) ELSE s
    [] ev = "pause" -> IF wrapperEmits(s, t, "pause") THEN onPause(s, t) ELSE s
    [] ev = "ratechange" ->
         IF wrapperEmits(s, t, "ratechange")
           THEN onRateChange(s, t, s.playbackRate[t]) ELSE s
    [] ev = "seeking" -> debounce(s, t)
    [] ev = "resolved" -> playPromiseSettled(s, t)
    [] ev \in BufferingEvents -> handleReadyStateChange(s)
    [] ev = "waiting" -> onWaiting(s, t)
    [] ev = "ended" -> onEnded(s, t)
    [] ev = "none" -> s

\* The event a queued task of an element fires.  The task queued at the end
\* of the resource fires pause (and pauses the element) only when the
\* element still plays at its end.
FiredBy(s, t, task) ==
  IF task # "endpause" THEN task
  ELSE IF ~s.paused[t] /\ s.currentTime[t] >= Duration(t) THEN "pause" ELSE "none"

DeliverNative(t) ==
  /\ nativeQ[t] # <<>>
  /\ LET ev == FiredBy(St, t, Head(nativeQ[t]))
         s == [St EXCEPT !.nativeQ[t] = Tail(@),
                         !.paused[t] = IF Head(nativeQ[t]) = "endpause" /\ ev = "pause"
                                         THEN TRUE ELSE @]
     IN Step(nativeTask(staleNativeTask(s, t, ev), t, ev),
             GatedTask("Native", t, ev, 0,
                       IF ev \in EventTypes THEN emitEvents[t][ev] ELSE TRUE))

\* The debounced seeking handler of one wrapper runs.
debouncedSeekingHandler(s, t, time) ==
  IF wrapperEmits(s, t, "seeking") THEN onSeeking(s, t, time) ELSE s

\* The debounced seeking handler of the earlier wrapper of one element runs;
\* its timer was set before that of the current wrapper.
staleDebouncedSeekingHandler(s, t, time) ==
  IF s.stale.emitEvents[t]["seeking"] THEN staleOnSeeking(s, t, time) ELSE s

StaleDebounceDue(t) == stale.debounceTimer[t].on /\ stale.debounceTimer[t].left = 0

StaleDebounceFire(t) ==
  /\ StaleDebounceDue(t)
  /\ Step(staleDebouncedSeekingHandler([St EXCEPT !.stale.debounceTimer[t] = NoTimer],
                                       t, stale.debounceTimer[t].time),
          [GatedTask("StaleDebounce", t, "seeking", stale.debounceTimer[t].time,
                     stale.debounceTimer[t].gate)
             EXCEPT !.merged = stale.debounceTimer[t].burst])

DebounceFire(t) ==
  /\ debounceTimer[t].on /\ debounceTimer[t].left = 0
  /\ ~StaleDebounceDue(t)
  /\ Step(debouncedSeekingHandler([St EXCEPT !.debounceTimer[t] = NoTimer],
                                  t, debounceTimer[t].time),
          [GatedTask("Debounce", t, "seeking", debounceTimer[t].time,
                     debounceTimer[t].gate) EXCEPT !.merged = debounceTimer[t].burst])

SeekTimerFire ==
  /\ seekTimers # <<>> /\ Head(seekTimers) = 0
  /\ Step(seekTracksTimeout([St EXCEPT !.seekTimers = Tail(@)]),
          Task("SeekTimer", 0, "seeking", 0))

RateTimerFire ==
  /\ rateTimers # <<>> /\ Head(rateTimers) = 0
  /\ Step(enableEvents([St EXCEPT !.rateTimers = Tail(@)], "ratechange"),
          Task("RateTimer", 0, "ratechange", 0))

PauseTimerFire ==
  /\ pauseTimers > 0
  /\ Step(enableEvents([St EXCEPT !.pauseTimers = @ - 1], "pause"),
          Task("PauseTimer", 0, "pause", 0))

PlayTimerFire ==
  /\ playTimers > 0
  /\ Step(enableEvents([St EXCEPT !.playTimers = @ - 1], "play"),
          Task("PlayTimer", 0, "play", 0))

InitTimerFire ==
  /\ initTimer
  /\ Step(initAudioContext([St EXCEPT !.initTimer = FALSE]), Task("InitTimer", 0, "", 0))

\* The audio context starts running: every resume() promise pending on it
\* resolves, and the playTracks calls awaiting them go on in their order.
RECURSIVE resumeEach(_, _)
resumeEach(s, ops) ==
  IF ops = <<>> THEN s
  ELSE resumeEach(playTracksPlay(s, Head(ops).targets), Tail(ops))

AudioContextRunning ==
  /\ audioContext = "suspended"
  /\ LET open == SelectSeq(resumeOps, LAMBDA o : ~o.closed)
         shut == SelectSeq(resumeOps, LAMBDA o : o.closed)
     IN Step(resumeEach([St EXCEPT !.audioContext = "running", !.resumeOps = shut], open),
             Task("AudioRunning", 0, "play", 0))

\* The resume() promise of a closed audio context rejects.
ResumeReject ==
  /\ resumeOps # <<>> /\ Head(resumeOps).closed
  /\ Step(playTracksCatch([St EXCEPT !.resumeOps = Tail(@)]),
          Task("ResumeReject", 0, "play", 0))

\* Time passes: only when no timer is due.
TimerDue ==
  \/ pauseTimers > 0 \/ playTimers > 0 \/ initTimer
  \/ \E i \in 1..Len(seekTimers) : seekTimers[i] = 0
  \/ \E i \in 1..Len(rateTimers) : rateTimers[i] = 0
  \/ \E t \in Tracks : debounceTimer[t].on /\ debounceTimer[t].left = 0
  \/ \E t \in Tracks : StaleDebounceDue(t)

TimerPending ==
  \/ seekTimers # <<>> \/ rateTimers # <<>>
  \/ \E t \in Tracks : debounceTimer[t].on \/ stale.debounceTimer[t].on

Tick ==
  /\ TimerPending /\ ~TimerDue
  /\ Step([St EXCEPT
             !.seekTimers = [i \in 1..Len(@) |-> @[i] - TickMs],
             !.rateTimers = [i \in 1..Len(@) |-> @[i] - TickMs],
             !.debounceTimer = [t \in Tracks |->
                IF @[t].on THEN [@[t] EXCEPT !.left = @ - TickMs] ELSE @[t]],
             !.stale.debounceTimer = [t \in Tracks |->
                IF @[t].on THEN [@[t] EXCEPT !.left = @ - TickMs] ELSE @[t]]],
          Task("Tick", 0, "", 0))

\* The interval callbacks of the drift engine.
SampleTick ==
  /\ intervals.sampling > 0
  /\ Len(driftSamples) < MaxSamples
  /\ Step(sampleDrift(St), Task("SampleTick", 0, "", 0))

CorrectTick ==
  /\ intervals.correction > 0
  /\ Len(driftSamples) < MaxSamples
  /\ Step(correctDrift(St), Task("CorrectTick", 0, "", 0))

\* ------------------------------------------------------------ specification
InitElements ==
  /\ paused = [t \in Tracks |-> TRUE]
  /\ currentTime = [t \in Tracks |-> 0]
  /\ playbackRate = [t \in Tracks |-> 1]
  /\ readyState = [t \in Tracks |-> HAVE_ENOUGH_DATA]
  /\ duration = [t \in Tracks |-> DURATION_MS]
  /\ isMain = [t \in Tracks |-> setupIsMain(t, initializeMain)]
  /\ nativeQ = [t \in Tracks |-> <<>>]

\* The state after construction and initialize().
InitProgram ==
  /\ emitEvents = [t \in Tracks |-> [e \in EventTypes |-> TRUE]]
  /\ debounceTimer = [t \in Tracks |-> NoTimer]
  /\ isSyncingSeeking = FALSE
  /\ audioContext = "null"
  /\ driftSamplingIntervalId = FALSE
  /\ driftCorrectionIntervalId = FALSE
  /\ driftSamples = <<>>
  /\ lastReadyState = HAVE_NOTHING
  /\ isWaitingForData = FALSE
  /\ seekTimers = <<>> /\ rateTimers = <<>>
  /\ pauseTimers = 0 /\ playTimers = 0
  /\ initTimer = TRUE
  /\ playOps = <<>> /\ resumeOps = <<>>

InitRunWith(stimuli) ==
  /\ budget = stimuli
  /\ last = Task("Init", 0, "", 0)
  /\ acts = <<>> /\ dispatched = <<>>
  /\ calls = NoCalls
  /\ canplaythroughs = 0
  /\ stim = [task |-> Task("Init", 0, "", 0), quiet |-> FALSE, enabled |-> FALSE,
             ready |-> FALSE]
  /\ disabledPhase = "none"
  /\ stalledPlaying = FALSE
  /\ isConnected = TRUE
  /\ loop = FALSE
  /\ trackLoop = [t \in Tracks |-> FALSE]
  /\ stale = NoStale
  /\ intervals = [sampling |-> IF driftSamplingIntervalId THEN 1 ELSE 0,
                  correction |-> IF driftCorrectionIntervalId THEN 1 ELSE 0]

InitRun == InitRunWith(MaxStimuli)

Init ==
  /\ InitElements /\ InitProgram /\ InitRun
  /\ disabled = FALSE
  /\ autoplayBlocked = {}

Internal ==
  \/ \E t \in Tracks : DeliverNative(t)
  \/ \E t \in Tracks : DebounceFire(t)
  \/ SeekTimerFire
  \/ RateTimerFire
  \/ PauseTimerFire
  \/ PlayTimerFire
  \/ InitTimerFire
  \/ AudioContextRunning
  \/ ResumeReject
  \/ Tick
  \/ SampleTick
  \/ CorrectTick

Next ==
  \/ \E t \in Tracks : UserPlay(t)
  \/ \E t \in Tracks : UserPause(t)
  \/ \E t \in Tracks, x \in SeekTargets : UserSeek(t, x)
  \/ \E t \in Tracks, r \in Rates : UserRate(t, r)
  \/ GroupPlay
  \/ GroupPause
  \/ \E x \in SeekTargets : GroupSeek(x)
  \/ \E r \in Rates : GroupRate(r)
  \/ \E v \in BOOLEAN : SetDisabled(v)
  \/ Internal

Spec == Init /\ [][Next]_vars


\* The transport alone: play and pause on tracks and on the group.
InitTransport ==
  /\ InitElements /\ InitProgram
  /\ InitRunWith(MaxStimuli + 1)
  /\ disabled = FALSE
  /\ autoplayBlocked = {}

NextTransport ==
  \/ \E t \in Tracks : UserPlay(t)
  \/ \E t \in Tracks : UserPause(t)
  \/ GroupPlay
  \/ GroupPause
  \/ \E t \in Tracks : DeliverNative(t)
  \/ PauseTimerFire
  \/ PlayTimerFire
  \/ InitTimerFire
  \/ AudioContextRunning
  \/ SampleTick
  \/ CorrectTick

SpecTransport == InitTransport /\ [][NextTransport]_vars

\* The program once initialize() and its audio-context timer have run, the
\* audio context in the given state.
InitSettled(context) ==
  /\ InitElements
  /\ emitEvents = [t \in Tracks |-> [e \in EventTypes |-> TRUE]]
  /\ debounceTimer = [t \in Tracks |-> NoTimer]
  /\ isSyncingSeeking = FALSE
  /\ audioContext = context
  /\ driftSamplingIntervalId = FALSE
  /\ driftCorrectionIntervalId = FALSE
  /\ driftSamples = <<>>
  /\ lastReadyState = HAVE_NOTHING
  /\ isWaitingForData = FALSE
  /\ seekTimers = <<>> /\ rateTimers = <<>>
  /\ pauseTimers = 0 /\ playTimers = 0
  /\ initTimer = FALSE
  /\ playOps = <<>> /\ resumeOps = <<>>
  /\ disabled = FALSE
  /\ autoplayBlocked = {}

\* Seeking alone: users scrub tracks.
InitSeek == InitSettled("suspended") /\ InitRun

NextSeek ==
  \/ \E t \in Tracks, x \in SeekTargets : UserSeek(t, x)
  \/ \E t \in Tracks : DeliverNative(t)
  \/ \E t \in Tracks : DebounceFire(t)
  \/ SeekTimerFire
  \/ Tick

SpecSeek == InitSeek /\ [][NextSeek]_vars

\* A group constructed with the disabled attribute: users act on the tracks
\* and the attribute is toggled.
InitDisabled ==
  /\ InitElements /\ InitProgram
  /\ InitRunWith(MaxStimuli + 1)
  /\ disabled = TRUE
  /\ autoplayBlocked = {}

NextDisabled ==
  \/ \E t \in Tracks : UserPlay(t)
  \/ \E t \in Tracks : UserPause(t)
  \/ \E t \in Tracks, x \in SeekTargets : UserSeek(t, x)
  \/ \E t \in Tracks, r \in Rates : UserRate(t, r)
  \/ \E v \in BOOLEAN : SetDisabled(v)
  \/ Internal

SpecDisabled == InitDisabled /\ [][NextDisabled]_vars

\* Users act on the tracks of a group whose audio context runs.  The event
\* loop keeps running: a queued media-element task or a due timer is not
\* left waiting for ever.
InitLive == InitSettled("running") /\ InitRun

NextLive ==
  \/ \E t \in Tracks : UserPlay(t)
  \/ \E t \in Tracks : UserPause(t)
  \/ \E t \in Tracks, x \in SeekTargets : UserSeek(t, x)
  \/ \E t \in Tracks, r \in Rates : UserRate(t, r)
  \/ \E t \in Tracks : DeliverNative(t)
  \/ \E t \in Tracks : DebounceFire(t)
  \/ SeekTimerFire
  \/ RateTimerFire
  \/ PauseTimerFire
  \/ PlayTimerFire
  \/ Tick

InternalLive ==
  \/ Tick
  \/ PauseTimerFire
  \/ PlayTimerFire
  \/ RateTimerFire
  \/ SeekTimerFire
  \/ \E t \in Tracks : DebounceFire(t)
  \/ \E t \in Tracks : DeliverNative(t)

FairLive == WF_vars(InternalLive)

SpecLive == InitLive /\ [][NextLive]_vars /\ FairLive

\* Buffering: the elements load, stall and recover while users and scripts
\* start playback.  The elements are either all unloaded, or all loaded; a
\* group whose elements were loaded before initialize() has seen none of
\* their buffering events.
InitReady ==
  /\ paused = [t \in Tracks |-> TRUE]
  /\ currentTime = [t \in Tracks |-> 0]
  /\ playbackRate = [t \in Tracks |-> 1]
  /\ duration = [t \in Tracks |-> DURATION_MS]
  /\ isMain = [t \in Tracks |-> setupIsMain(t, initializeMain)]
  /\ nativeQ = [t \in Tracks |-> <<>>]
  /\ \E level \in {HAVE_NOTHING, HAVE_ENOUGH_DATA} :
       /\ readyState = [t \in Tracks |-> level]
       /\ lastReadyState \in {HAVE_NOTHING, level}
  /\ isWaitingForData = FALSE
  /\ emitEvents = [t \in Tracks |-> [e \in EventTypes |-> TRUE]]
  /\ debounceTimer = [t \in Tracks |-> NoTimer]
  /\ isSyncingSeeking = FALSE
  /\ audioContext = "running"
  /\ driftSamplingIntervalId = FALSE
  /\ driftCorrectionIntervalId = FALSE
  /\ driftSamples = <<>>
  /\ seekTimers = <<>> /\ rateTimers = <<>>
  /\ pauseTimers = 0 /\ playTimers = 0
  /\ initTimer = FALSE
  /\ playOps = <<>> /\ resumeOps = <<>>
  /\ disabled = FALSE
  /\ autoplayBlocked = {}
  /\ InitRunWith(MaxStimuli + 1)

InternalReady ==
  \/ PauseTimerFire
  \/ PlayTimerFire
  \/ \E t \in Tracks : DeliverNative(t)

NextReady ==
  \/ \E t \in Tracks, level \in ReadyStates : SetReady(t, level)
  \/ \E t \in Tracks : UserPlay(t)
  \/ GroupPlay
  \/ InternalReady

SpecReady == InitReady /\ [][NextReady]_vars

\* The buffering run with an event loop that keeps running.
FairReady == WF_vars(InternalReady)

SpecReadyLive == InitReady /\ [][NextReady]_vars /\ FairReady

\* Playback is started on the tracks of a group whose elements have not
\* loaded beyond HAVE_CURRENT_DATA: the only calls of pause() are those of
\* the coordinator, the only pause events their echoes.
InitUnready ==
  /\ InitReady
  /\ readyState = [t \in Tracks |-> HAVE_NOTHING]

NextUnready ==
  \/ \E t \in Tracks : UserPlay(t)
  \/ \E t \in Tracks, level \in {HAVE_METADATA, HAVE_CURRENT_DATA} : SetReady(t, level)
  \/ \E t \in Tracks : DeliverNative(t)
  \/ PauseTimerFire

SpecUnready == InitUnready /\ [][NextUnready]_vars

\* The end of the resources: a group is played, its elements reach their
\* ends one by one, users pause tracks, the drift engine runs.
InitEnded == InitSettled("running") /\ InitRunWith(MaxStimuli + 1)

NextEnded ==
  \/ GroupPlay
  \/ \E t \in Tracks : ReachEnd(t)
  \/ \E t \in Tracks : UserPause(t)
  \/ \E t \in Tracks : DeliverNative(t)
  \/ \E t \in Tracks : DebounceFire(t)
  \/ SeekTimerFire
  \/ PauseTimerFire
  \/ PlayTimerFire
  \/ Tick
  \/ SampleTick
  \/ CorrectTick

SpecEnded == InitEnded /\ [][NextEnded]_vars

\* ------------------------------------------------------------- drift family
\* A playing group whose elements run on clocks of their own: an element gets
\* ahead of the others by the threshold, by more, or reaches its end.
DriftSteps == {DRIFT_CORRECTION_THRESHOLD, DRIFT_CORRECTION_THRESHOLD + 1}

InitDrift == InitSettled("running") /\ InitRunWith(MaxStimuli + 1)

NextDrift ==
  \/ GroupPlay
  \/ \E t \in Tracks, d \in DriftSteps : Advance(t, d)
  \/ \E t \in Tracks : ReachEnd(t)
  \/ \E t \in Tracks : DeliverNative(t)
  \/ \E t \in Tracks : DebounceFire(t)
  \/ SeekTimerFire
  \/ PauseTimerFire
  \/ PlayTimerFire
  \/ Tick
  \/ SampleTick
  \/ CorrectTick

SpecDrift == InitDrift /\ [][NextDrift]_vars

\* ---------------------------------------------------------- teardown family
\* A group that is played, sought and removed from the document while its
\* elements stay alive: timers pending at the removal still run, and the
\* elements still fire their events.
InitTeardown == InitSettled("running") /\ InitRunWith(MaxStimuli + 1)

NextTeardown ==
  \/ isConnected /\ GroupPlay
  \/ \E t \in Tracks, x \in SeekTargets : UserSeek(t, x)
  \/ Disconnect
  \/ \E t \in Tracks : DeliverNative(t)
  \/ \E t \in Tracks : DebounceFire(t)
  \/ SeekTimerFire
  \/ PlayTimerFire
  \/ Tick
  \/ CorrectTick

SpecTeardown == InitTeardown /\ [][NextTeardown]_vars

\* ------------------------------------------------------ end-of-track family
\* A group, enabled or disabled from the start, whose tracks are played by
\* the user and run to their ends.
InitEndOff ==
  /\ InitElements /\ InitProgram
  /\ InitRunWith(MaxStimuli + 1)
  /\ disabled \in BOOLEAN
  /\ autoplayBlocked = {}

NextEndOff ==
  \/ \E t \in Tracks : UserPlay(t)
  \/ \E t \in Tracks : ReachEnd(t)
  \/ \E t \in Tracks : DeliverNative(t)
  \/ \E t \in Tracks : DebounceFire(t)
  \/ SeekTimerFire
  \/ PauseTimerFire
  \/ PlayTimerFire
  \/ InitTimerFire
  \/ AudioContextRunning
  \/ Tick

SpecEndOff == InitEndOff /\ [][NextEndOff]_vars

\* ------------------------------------------------------- rejected-play family
\* The host refuses to start some of the elements (autoplay policy); the
\* group is played and paused through its API.  The audio context is running
\* or still suspended.
InitReject ==
  /\ InitElements
  /\ emitEvents = [t \in Tracks |-> [e \in EventTypes |-> TRUE]]
  /\ debounceTimer = [t \in Tracks |-> NoTimer]
  /\ isSyncingSeeking = FALSE
  /\ audioContext \in {"running", "suspended"}
  /\ driftSamplingIntervalId = FALSE
  /\ driftCorrectionIntervalId = FALSE
  /\ driftSamples = <<>>
  /\ lastReadyState = HAVE_NOTHING
  /\ isWaitingForData = FALSE
  /\ seekTimers = <<>> /\ rateTimers = <<>>
  /\ pauseTimers = 0 /\ playTimers = 0
  /\ initTimer = FALSE
  /\ playOps = <<>> /\ resumeOps = <<>>
  /\ disabled = FALSE
  /\ autoplayBlocked \in SUBSET Tracks
  /\ InitRunWith(MaxStimuli + 1)

InternalReject ==
  \/ \E t \in Tracks : DeliverNative(t)
  \/ PlayTimerFire
  \/ PauseTimerFire
  \/ AudioContextRunning

NextReject ==
  \/ GroupPlay
  \/ GroupPause
  \/ InternalReject

\* Queued tasks are delivered, zero-delay timers fire, and the audio context
\* comes to run.
FairReject == WF_vars(InternalReject)

SpecReject == InitReject /\ [][NextReject]_vars /\ FairReject

\* --------------------------------------------------------------- loop family
\* Looping is switched on the group, by property and by attribute, and on
\* single elements, while the group is played and paused.
InitLoop == InitSettled("running") /\ InitRunWith(MaxStimuli + 1)

NextLoop ==
  \/ \E v \in BOOLEAN : SetLoop(v)
  \/ \E v \in BOOLEAN : LoopAttribute(v)
  \/ \E t \in Tracks, v \in BOOLEAN : UserLoop(t, v)
  \/ GroupPlay
  \/ \E t \in Tracks : DeliverNative(t)
  \/ PlayTimerFire

SpecLoop == InitLoop /\ [][NextLoop]_vars

\* ----------------------------------------------------------- stalling family
\* A playing group whose elements drift apart; an element runs out of data
\* while a seek is under way, as it does when it is sought to a position it
\* has not buffered.
StallLevels == {HAVE_CURRENT_DATA}

InitStall == InitSettled("running") /\ InitRunWith(MaxStimuli + 1)

NextStall ==
  \/ GroupPlay
  \/ \E t \in Tracks, d \in DriftSteps : Advance(t, d)
  \/ \E t \in Tracks, level \in StallLevels : isSyncingSeeking /\ SetReady(t, level)
  \/ \E t \in Tracks : DeliverNative(t)
  \/ \E t \in Tracks : DebounceFire(t)
  \/ SeekTimerFire
  \/ PauseTimerFire
  \/ PlayTimerFire
  \/ Tick
  \/ CorrectTick

SpecStall == InitStall /\ [][NextStall]_vars

\* Tracks of different lengths: the group is sought to times before, at and
\* beyond the ends of its tracks.  A duration of 0 is that of an element
\* whose metadata has not loaded.
Durations == {0, 60000, 100000}

ClampTargets == {1000, 60000, 80000, 100000}

InitClamp ==
  /\ paused = [t \in Tracks |-> TRUE]
  /\ currentTime = [t \in Tracks |-> 0]
  /\ playbackRate = [t \in Tracks |-> 1]
  /\ readyState = [t \in Tracks |-> HAVE_ENOUGH_DATA]
  /\ duration \in [Tracks -> Durations]
  /\ isMain = [t \in Tracks |-> setupIsMain(t, initializeMain)]
  /\ nativeQ = [t \in Tracks |-> <<>>]
  /\ InitProgram
  /\ InitRunWith(MaxStimuli - 1)
  /\ disabled = FALSE
  /\ autoplayBlocked = {}

NextClamp ==
  \/ \E x \in ClampTargets : GroupSeek(x)
  \/ \E t \in Tracks : DeliverNative(t)
  \/ \E t \in Tracks : DebounceFire(t)
  \/ SeekTimerFire
  \/ InitTimerFire
  \/ Tick

SpecClamp == InitClamp /\ [][NextClamp]_vars

\* ------------------------------------------------------------------ claims
\* The coordinator called op on track j in the task whose calls are as.
MirroredOn(as, ev, j) ==
  \E i \in 1..Len(as) : GateOf(as[i][1]) = ev /\ as[i][2] = j

C2_GateSuppressedAtAction ==
  \A i \in 1..Len(acts) : acts[i][4] = FALSE

\* C3: a native play, pause or ratechange event that fires on a track while
\* the track's gate for that type is suppressed is not relayed: the task
\* dispatches no group event, calls nothing on any track and leaves the
\* coordinator and the tracks as they were.
C3_SuppressedNativeNotRelayed ==
  [][(last'.kind = "Native" /\ last'.ev \in {"play", "pause", "ratechange"}
        /\ ~last'.gate)
      => /\ dispatched' = <<>> /\ acts' = <<>>
         /\ UNCHANGED <<paused, currentTime, playbackRate, emitEvents,
                        isSyncingSeeking, audioContext, driftSamplingIntervalId,
                        driftCorrectionIntervalId, driftSamples, seekTimers,
                        rateTimers, pauseTimers, playTimers, playOps, resumeOps>>]_vars

C3_Witness ==
  /\ last.kind = "Native" /\ last.ev \in {"play", "pause", "ratechange"}
  /\ ~last.gate
  /\ dispatched = <<>>

\* C4: a native seeking event that fired on a track while the track's
\* seeking gate was suppressed is not relayed: the debounced handler of that
\* event dispatches nothing and mirrors nothing.
C4_SuppressedSeekingNotRelayed ==
  (last.kind = "Debounce" /\ ~last.gate) => (dispatched = <<>> /\ acts = <<>>)

C6_AllAtLastTarget ==
  (Quiescent /\ stim.task.kind = "UserSeek")
    => \A t \in Tracks : currentTime[t] = stim.task.arg

\* C7: in every quiescent state all tracks agree on paused.
C7_AllAgree ==
  Quiescent => (\A t \in Tracks : paused[t]) \/ (\A t \in Tracks : ~paused[t])

\* C8: a seeking, play, pause or ratechange event of a track handed to the
\* coordinator while disabled is true makes it call nothing on any track and
\* toggles no gate; handed over while disabled is false, it is propagated to
\* every other track (for play, at once or once the audio context resumes).
C8_DisabledIgnoresTrackEvents ==
  [][SemanticEvent(last')
      => IF disabled
           THEN /\ acts' = <<>>
                /\ UNCHANGED <<paused, currentTime, playbackRate, emitEvents>>
           ELSE \A j \in otherTracks(last'.track) :
                  \/ MirroredOn(acts', last'.ev, j)
                  \/ /\ last'.ev = "play"
                     /\ Len(resumeOps') = Len(resumeOps) + 1
                     /\ j \in resumeOps'[Len(resumeOps')].targets]_vars

C8_Witness ==
  /\ disabledPhase = "reenabled"
  /\ ~disabled
  /\ SemanticEvent(last)
  /\ \A j \in otherTracks(last.track) : MirroredOn(acts, last.ev, j)

\* C9: while disabled is true, group play(), pause(), currentTime = t and
\* playbackRate = r leave every track's paused state, currentTime,
\* playbackRate and gates unchanged and schedule no timer.
C9_DisabledApiNoOp ==
  [][(disabled /\ last'.kind \in {"GroupPlay", "GroupPause", "GroupSeek", "GroupRate"})
      => /\ acts' = <<>>
         /\ UNCHANGED <<paused, currentTime, playbackRate, emitEvents, nativeQ,
                        debounceTimer, seekTimers, rateTimers, pauseTimers,
                        playTimers, initTimer, driftSamplingIntervalId,
                        driftCorrectionIntervalId, playOps, resumeOps>>]_vars

C9_Witness ==
  /\ disabled
  /\ last.kind \in {"GroupPlay", "GroupPause", "GroupSeek", "GroupRate"}
  /\ acts = <<>>

\* C10: in every state where disabled is true neither drift timer runs, and
\* no step taken while disabled is true appends a drift record.
C10_DisabledDriftInert ==
  /\ [](disabled => ~driftSamplingIntervalId /\ ~driftCorrectionIntervalId)
  /\ [][disabled => driftSamples' = driftSamples]_vars

\* The continuation of a playTracks call, pending when disabled was set,
\* has run with every track playing.
C10_Witness ==
  /\ disabled
  /\ last.kind = "Native" /\ last.ev = "resolved"
  /\ playTimers > 0
  /\ \A t \in Tracks : ~paused[t]

\* C11: the group's readyState always equals the minimum of its tracks'
\* readiness levels, for every group that can be made of the tracks, and is
\* HAVE_NOTHING for the group without tracks.
C11_ReadyStateIsMinimum ==
  \A mediaElements \in SUBSET Tracks :
    LET r == readyStateOf(St, mediaElements)
    IN IF mediaElements = {} THEN r = HAVE_NOTHING
       ELSE /\ \E t \in mediaElements : r = readyState[t]
            /\ \A t \in mediaElements : r <= readyState[t]

C11_Witness ==
  /\ \E t \in Tracks : readyState[t] < readyState[MainTrack]
  /\ groupReadyState(St) < readyState[MainTrack]
  /\ groupReadyState(St) > HAVE_NOTHING

\* The lowest of the levels of a function from tracks to levels.
LowestLevel(levels) ==
  CHOOSE m \in {levels[t] : t \in Tracks} : \A t \in Tracks : m <= levels[t]

ReadinessEventsIn(events) == SelectSeq(events, LAMBDA e : e[1] \in BufferingEvents)

\* C12: each time a buffering event arrives from a track, the group emits
\* exactly one readiness event, the one named for the new minimum level, if
\* that level differs from lastReadyState, and none otherwise; afterwards
\* lastReadyState equals the group's readiness.
C12_OneReadinessEventPerChange ==
  [][(last'.kind = "Native" /\ last'.ev \in BufferingEvents)
       => LET level == LowestLevel(readyState')
              name == <<"emptied", "loadedmetadata", "loadeddata",
                        "canplay", "canplaythrough">>[level + 1]
          IN /\ ReadinessEventsIn(dispatched') =
                  IF level # lastReadyState THEN <<<<name, 0>>>> ELSE <<>>
             /\ lastReadyState' = level]_vars

C12_Witness ==
  /\ last.kind = "Native" /\ last.ev = "canplay"
  /\ ReadinessEventsIn(dispatched) = <<<<"loadeddata", 0>>>>
  /\ lastReadyState = HAVE_CURRENT_DATA

\* The last stimulus was the rise of one track to HAVE_ENOUGH_DATA that
\* brought the group's readiness to HAVE_ENOUGH_DATA, and the buffering
\* events of that rise have reached the coordinator.
GroupRose ==
  /\ stim.task.kind = "SetReady" /\ stim.task.arg = HAVE_ENOUGH_DATA
  /\ ~stim.ready
  /\ LowestLevel(readyState) = HAVE_ENOUGH_DATA
  /\ \A i \in 1..Len(nativeQ[stim.task.track]) :
       nativeQ[stim.task.track][i] \notin BufferingEvents

\* C13: every rise of the group's readiness to ENOUGH_DATA emits exactly one
\* group-level canplaythrough event for that rise, however the earlier drop
\* was signalled by the track.
C13_RiseEmitsCanplaythrough == GroupRose => canplaythroughs = 1

\* The pause events queued on the elements and not yet delivered.
RECURSIVE PendingPauses(_)
PendingPauses(seq) ==
  IF seq = <<>> THEN 0
  ELSE Len(SelectSeq(nativeQ[Head(seq)], LAMBDA e : e = "pause")) + PendingPauses(Tail(seq))

\* C14: when a track emits play while the group's readiness is below
\* ENOUGH_DATA and sync is enabled, the coordinator pauses that track, calls
\* play() on no track and dispatches no group-level play or pause; and the
\* pause it caused, reaching the coordinator before the re-enable timer set
\* after it (each queued pause event still has its timer pending), is
\* propagated to no other track and dispatches no group-level pause.
C14_UnreadyPlayIsPausedAlone ==
  [][/\ (last'.kind = "Native" /\ last'.ev = "play" /\ last'.gate /\ ~disabled)
          => /\ Len(acts') = 1
             /\ acts'[1][1] = "pause" /\ acts'[1][2] = last'.track
             /\ paused'[last'.track]
             /\ dispatched' = <<>>
     /\ (/\ last'.kind = "Native" /\ last'.ev = "pause"
         /\ pauseTimers >= PendingPauses(TrackSeq(Tracks)))
          => /\ acts' = <<>>
             /\ dispatched' = <<>>]_vars

\* C15: a group play() issued while the group's readiness is below
\* ENOUGH_DATA calls play() on no track, changes no gate, starts no drift
\* timer and leaves nothing pending (its promise resolves); a play() issued
\* at ENOUGH_DATA calls play() on every track.
C15_PlayWaitsForReadiness ==
  [][(last'.kind = "GroupPlay" /\ ~disabled)
       => IF LowestLevel(readyState) < HAVE_ENOUGH_DATA
            THEN /\ acts' = <<>>
                 /\ UNCHANGED <<paused, nativeQ, emitEvents, playOps, resumeOps, playTimers,
                                driftSamplingIntervalId, driftCorrectionIntervalId>>
            ELSE \A t \in Tracks : MirroredOn(acts', "play", t)]_vars

C15_Witness ==
  /\ last.kind = "GroupPlay"
  /\ LowestLevel(readyState) = HAVE_FUTURE_DATA
  /\ \E t \in Tracks : readyState[t] = HAVE_ENOUGH_DATA /\ ~paused[t]
  /\ acts = <<>>

\* C16: once the readiness of a playing group stalled by a waiting event
\* reaches ENOUGH_DATA with sync enabled, isWaitingForData is cleared and playback
\* eventually resumes on every track (unless the readiness drops again first).
C16_StallEventuallyResumes ==
  (isWaitingForData /\ stalledPlaying /\ ~disabled /\ LowestLevel(readyState) = HAVE_ENOUGH_DATA)
    ~> \/ LowestLevel(readyState) < HAVE_ENOUGH_DATA
       \/ ~isWaitingForData /\ \A t \in Tracks : ~paused[t]

\* The track is within 0.1 s of its duration.
AtEnd(t) == Abs(currentTime[t] - duration[t]) < ENDED_EPSILON_MS

\* C17: a pause event from a track whose ended is true causes pause() on no
\* other track, dispatches no group-level pause and leaves the drift timers
\* as they were.
C17_EndedPauseNotPropagated ==
  [][(last'.kind = "Native" /\ last'.ev = "pause" /\ AtEnd(last'.track))
       => /\ acts' = <<>>
          /\ dispatched' = <<>>
          /\ UNCHANGED <<driftSamplingIntervalId, driftCorrectionIntervalId>>]_vars

C17_Witness ==
  /\ last.kind = "Native" /\ last.ev = "pause" /\ last.gate
  /\ AtEnd(last.track) /\ paused[last.track]
  /\ \A t \in Tracks \ {last.track} : ~paused[t]
  /\ driftSamplingIntervalId /\ driftCorrectionIntervalId

C19_SeekDroppedWhileSyncing ==
  [][(/\ isSyncingSeeking
      /\ \/ last'.kind = "Debounce"
         \/ last'.kind = "GroupSeek")
       => UNCHANGED <<currentTime, seekTimers>>]_vars

\* The debounced call of a burst of native seeking events on one track runs
\* and the wrapper emits the semantic seeking event, which makes the
\* coordinator set the time it carries exactly once on each other track.
BurstMirroredOnce ==
  LET t == last'.track
  IN /\ emitEvents[t]["seeking"]
     /\ nativeQ[t] = <<>> => last'.arg = currentTime[t]
     /\ dispatched' = <<<<"seeking", last'.arg>>>>
     /\ \A j \in Tracks :
          Len(SelectSeq(acts', LAMBDA a : a[2] = j)) = IF j = t THEN 0 ELSE 1
     /\ \A i \in 1..Len(acts') : acts'[i][1] = "seek" /\ acts'[i][3] = last'.arg

BurstFires == last'.kind = "Debounce" /\ last'.merged >= 2

C21_SetterClampsAtDuration ==
  [][\A i \in 1..Len(acts') :
       acts'[i][1] = "seek"
         => LET t == acts'[i][2]
                target == acts'[i][3]
            IN currentTime'[t] =
                 IF target < duration[t] THEN target
                 ELSE IF duration[t] - 50 > 0 THEN duration[t] - 50 ELSE 0]_vars

\* A group seek to 80 s has left a track of 60 s at 59.95 s and a track of
\* 100 s at 80 s.
C21_Witness ==
  /\ last.kind = "GroupSeek" /\ last.arg = 80000
  /\ \E t \in Tracks : duration[t] = 60000 /\ currentTime[t] = 59950
  /\ \E t \in Tracks : duration[t] = 100000 /\ currentTime[t] = 80000

\* The tracks a correction tick has to correct: the tracks other than the
\* main one that have not ended and are off the main track's time by more
\* than the threshold.
OverThreshold ==
  {t \in Tracks \ {MainTrack} :
     ~AtEnd(t) /\ Abs(currentTime[t] - currentTime[MainTrack]) > DRIFT_CORRECTION_THRESHOLD}

\* The time an element has after the wrapper's setter was called with time.
SetterResult(t, time) ==
  IF time < duration[t] THEN time
  ELSE IF duration[t] - END_CLAMP_MS > 0 THEN duration[t] - END_CLAMP_MS ELSE 0

\* C22: a correction tick with sync enabled, the main track playing and no
\* seek in flight appends one DriftCorrection and seeks if and only if some
\* non-main, non-ended track is off the main track's time by strictly more
\* than the threshold; it sets currentTime to the main track's time on exactly
\* those tracks, once each, and flags exactly those tracks in the record.
C22_CorrectsExactlyDrifted ==
  [][(last'.kind = "CorrectTick" /\ ~disabled /\ ~paused[MainTrack] /\ ~isSyncingSeeking)
       => /\ OverThreshold = {} => driftSamples' = driftSamples /\ acts' = <<>>
          /\ OverThreshold # {}
               => /\ Len(driftSamples') = Len(driftSamples) + 1
                  /\ driftSamples'[Len(driftSamples')].type = "correction"
                  /\ driftSamples'[Len(driftSamples')].currentTime = currentTime[MainTrack]
                  /\ \A t \in Tracks :
                       driftSamples'[Len(driftSamples')].corrections[t] <=> t \in OverThreshold
                  /\ Len(acts') = Cardinality(OverThreshold)
                  /\ \A i \in 1..Len(acts') :
                       /\ acts'[i][1] = "seek"
                       /\ acts'[i][2] \in OverThreshold
                       /\ acts'[i][3] = currentTime[MainTrack]
                  /\ \A t \in OverThreshold :
                       /\ MirroredOn(acts', "seeking", t)
                       /\ currentTime'[t] = SetterResult(t, currentTime[MainTrack])
                  /\ \A t \in Tracks \ OverThreshold : currentTime'[t] = currentTime[t]]_vars

C22_Witness ==
  /\ last.kind = "CorrectTick"
  /\ ~paused[MainTrack]
  /\ Len(driftSamples) = 1 /\ driftSamples[1].type = "correction"
  /\ \E t \in Tracks \ {MainTrack} :
       /\ driftSamples[1].corrections[t]
       /\ ~driftSamples[1].corrections[MainTrack]
       /\ currentTime[t] = currentTime[MainTrack]
       /\ currentTime[t] = DRIFT_CORRECTION_THRESHOLD + 1
       /\ acts # <<>>
       /\ SubSeq(acts[Len(acts)], 1, 3) = <<"seek", t, DRIFT_CORRECTION_THRESHOLD + 1>>

DriftTimerStarted ==
  \/ ~driftSamplingIntervalId /\ driftSamplingIntervalId'
  \/ ~driftCorrectionIntervalId /\ driftCorrectionIntervalId'

\* C23: whenever the drift sampling timer or the drift correction timer is
\* started, be it after a play, after a seek window closed or after disabled
\* was switched off, every track reports not paused.
C23_DriftStartsOnlyAllPlaying ==
  [][DriftTimerStarted => \A t \in Tracks : ~paused'[t]]_vars

\* C24: once the group is torn down, both drift timers are stopped and stay
\* stopped, and no later task makes the coordinator call play(), pause(), the
\* currentTime setter or the playbackRate setter on any track.
C24_TornDownIsInert ==
  /\ [](~isConnected => ~driftSamplingIntervalId /\ ~driftCorrectionIntervalId)
  /\ [][~isConnected => acts' = <<>>]_vars

EndedEventOf(t) == last'.kind = "Native" /\ last'.ev = "ended" /\ last'.track = t

GroupEndedEvents == Cardinality({i \in 1..Len(dispatched') : dispatched'[i][1] = "ended"})

PausedOnceEach(S) ==
  /\ Len(acts') = Cardinality(S)
  /\ \A i \in 1..Len(acts') : acts'[i][1] = "pause" /\ acts'[i][2] \in S
  /\ \A t \in S : MirroredOn(acts', "pause", t)

PlayWasRejected(as, ps) ==
  \E t \in autoplayBlocked : ps[t] /\ MirroredOn(as, "play", t)

\* The step runs the play() calls of group play(): in its own task, or in
\* the task that resumes the audio context when only group plays wait for it.
GroupPlayRuns ==
  \/ last'.kind = "GroupPlay"
  \/ /\ last'.kind = "AudioRunning"
     /\ \A i \in 1..Len(resumeOps) : resumeOps[i].targets = Tracks

\* No playTracks call is waiting for a promise, and the play gates are open.
GroupPlaySettled ==
  /\ playOps = <<>> /\ resumeOps = <<>> /\ playTimers = 0
  /\ \A t \in Tracks : emitEvents[t]["play"]

\* C26: when the native play() of a track rejects during a group play,
\* play() is called on every other track in the same task all the same, the
\* playTracks call behind the promise of group play() runs to its end (the
\* promise resolves), and afterwards the play gate is enabled on every track.
C26_RejectedPlayDoesNotAbort ==
  /\ [][(GroupPlayRuns /\ PlayWasRejected(acts', paused))
          => \A j \in Tracks : MirroredOn(acts', "play", j)]_vars
  /\ (PlayWasRejected(acts, paused) ~> GroupPlaySettled)

C26_Witness ==
  /\ GroupPlaySettled
  /\ stim.task.kind = "GroupPlay"
  /\ autoplayBlocked # {} /\ autoplayBlocked # Tracks
  /\ \A t \in Tracks : calls[t] = 1 /\ (paused[t] <=> t \in autoplayBlocked)
  /\ last.kind = "PlayTimer"

\* C27: after every set of the group's loop property and every change of its
\* loop attribute, whatever was set on the group and on single elements
\* before, no track other than the main one has loop enabled and the main
\* track's loop equals the group's loop.
C27_LoopOnlyOnMain ==
  last.kind \in {"SetLoop", "LoopAttribute"}
    => /\ \A t \in Tracks \ {MainTrack} : ~trackLoop[t]
       /\ trackLoop[MainTrack] = loop

C27_Witness ==
  /\ last.kind = "SetLoop" /\ last.arg = 1
  /\ budget = 0
  /\ loop /\ trackLoop[MainTrack]
  /\ \A t \in Tracks \ {MainTrack} : ~trackLoop[t]

\* The delay after a corrective seek of track t has not run out yet.
InCorrectionWindow(t) ==
  /\ isSyncingSeeking
  /\ driftSamples # <<>>
  /\ driftSamples[Len(driftSamples)].type = "correction"
  /\ driftSamples[Len(driftSamples)].corrections[t]

\* C28: a waiting event of a track that a correction tick has sought, fired
\* before the delay after the seek has run out, is not relayed: the
\* coordinator pauses no track and dispatches no group-level waiting event.
C28_CorrectiveWaitingSuppressed ==
  [][(last'.kind = "Native" /\ last'.ev = "waiting" /\ InCorrectionWindow(last'.track))
       => /\ acts' = <<>>
          /\ dispatched' = <<>>
          /\ isWaitingForData' = isWaitingForData]_vars

\* C29: in every state of an initialized group exactly one track has isMain
\* true, that track is the one of the first element, and the group's
\* mainElement getter yields it.
C29_FirstTrackIsMain ==
  /\ Cardinality({t \in Tracks : isMain[t]}) = 1
  /\ isMain[Head(TrackSeq(Tracks))]
  /\ mainElementOf(St) = MainTrack

C29_Witness ==
  /\ budget = 0 /\ Quiescent
  /\ last.kind = "SeekTimer"
  /\ {t \in Tracks : isMain[t]} = {MainTrack}
  /\ \E t \in Tracks : ~isMain[t] /\ ~paused[t]

\* The debounced call of a seeking event of track i with target x is relayed
\* and mirrored: one currentTime set with x on every other track, none on
\* track i, and one group-level seeking event carrying x.
SeekMirroredOnce(i, x) ==
  /\ Len(acts') = Cardinality(Tracks \ {i})
  /\ \A k \in 1..Len(acts') :
       acts'[k][1] = "seek" /\ acts'[k][2] # i /\ acts'[k][3] = x
  /\ \A j \in Tracks \ {i} : MirroredOn(acts', "seeking", j)
  /\ dispatched' = <<<<"seeking", x>>>>

\* C30: a seeking event with target x from track i, handled with sync enabled
\* and no seek in flight, sets currentTime exactly once on every other track
\* and never on track i and dispatches exactly one group-level seeking event
\* carrying x; and the seeking event of a mirrored set that arrives while the
\* seeking gate of its track is suppressed causes no currentTime set.
C30_SeekMirroredWithoutEcho ==
  [][last'.kind = "Debounce"
       => /\ (last'.gate /\ emitEvents[last'.track]["seeking"]
                /\ ~disabled /\ ~isSyncingSeeking)
               => SeekMirroredOnce(last'.track, last'.arg)
          /\ ~last'.gate => acts' = <<>>]_vars

\* C31: a pause event that the wrapper of a track relays, with sync enabled
\* and the track not at its end, makes the coordinator call pause() exactly
\* once on every other track and never on the source track, and both drift
\* timers are stopped when the task of the event returns.
C31_PauseMirroredOnce ==
  [][(/\ last'.kind = "Native" /\ last'.ev = "pause" /\ last'.gate
      /\ ~disabled /\ ~AtEnd(last'.track))
       => /\ PausedOnceEach(Tracks \ {last'.track})
          /\ ~driftSamplingIntervalId' /\ ~driftCorrectionIntervalId']_vars

C31_Witness ==
  /\ last.kind = "Native" /\ last.ev = "pause" /\ last.gate
  /\ stim.task.kind = "UserPause" /\ stim.task.track = last.track
  /\ ~disabled /\ ~AtEnd(last.track)
  /\ \A t \in Tracks \ {last.track} : MirroredOn(acts, "pause", t)
  /\ \A t \in Tracks : paused[t]
  /\ ~driftSamplingIntervalId /\ ~driftCorrectionIntervalId
  /\ driftSamples # <<>>

\* ------------------------------------------------- the drift callbacks alone
\* sampleDrift and correctDrift as functions of the coordinator's state: the
\* state the interval callbacks find is drawn from every combination of
\* disabled, a seek sync in flight, the tracks' paused flags and positions.
TickTimes == {1000, 1000 + DRIFT_CORRECTION_THRESHOLD + 1}

InitTick ==
  /\ paused \in [Tracks -> BOOLEAN]
  /\ currentTime \in [Tracks -> TickTimes]
  /\ playbackRate = [t \in Tracks |-> 1]
  /\ readyState = [t \in Tracks |-> HAVE_ENOUGH_DATA]
  /\ duration = [t \in Tracks |-> DURATION_MS]
  /\ isMain = [t \in Tracks |-> setupIsMain(t, initializeMain)]
  /\ nativeQ = [t \in Tracks |-> <<>>]
  /\ disabled \in BOOLEAN
  /\ isSyncingSeeking \in BOOLEAN
  /\ emitEvents = [t \in Tracks |->
                     [e \in EventTypes |-> ~(isSyncingSeeking /\ e = "seeking")]]
  /\ seekTimers = IF isSyncingSeeking THEN <<SEEK_REENABLE_DELAY>> ELSE <<>>
  /\ debounceTimer = [t \in Tracks |-> NoTimer]
  /\ audioContext = "running"
  /\ driftSamplingIntervalId = TRUE
  /\ driftCorrectionIntervalId = TRUE
  /\ driftSamples = <<>>
  /\ lastReadyState = HAVE_ENOUGH_DATA
  /\ isWaitingForData = FALSE
  /\ rateTimers = <<>>
  /\ pauseTimers = 0 /\ playTimers = 0
  /\ initTimer = FALSE
  /\ playOps = <<>> /\ resumeOps = <<>>
  /\ autoplayBlocked = {}
  /\ InitRunWith(0)

\* The interval callbacks in a group whose mediaElements holds one wrapper.
SoloSampleTick ==
  /\ intervals.sampling > 0
  /\ Step(sampleDriftOf(St, 1), Task("SoloSampleTick", 0, "", 0))

SoloCorrectTick ==
  /\ intervals.correction > 0
  /\ Step(correctDriftOf(St, 1), Task("SoloCorrectTick", 0, "", 0))

NextTick ==
  \/ SampleTick
  \/ CorrectTick
  \/ SoloSampleTick
  \/ SoloCorrectTick

SpecTick == InitTick /\ [][NextTick]_vars

\* The callback that just ran found a state in which it has to do nothing.
SamplerIdleCase ==
  \/ last'.kind = "SoloSampleTick"
  \/ last'.kind = "SampleTick" /\ (disabled \/ paused[mainElement])

CorrectorIdleCase ==
  \/ last'.kind = "SoloCorrectTick"
  \/ last'.kind = "CorrectTick"
       /\ (disabled \/ paused[mainElement] \/ isSyncingSeeking)

\* C32: a sampler tick appends nothing to the drift samples when sync is
\* disabled, the main track is paused or the group has fewer than two tracks;
\* a corrector tick under any of those conditions, or while isSyncingSeeking
\* is set, appends no correction record and sets no track's currentTime.
C32_IdleTicksDoNothing ==
  [][/\ SamplerIdleCase => driftSamples' = driftSamples
     /\ CorrectorIdleCase => /\ driftSamples' = driftSamples
                             /\ acts' = <<>>
                             /\ currentTime' = currentTime]_vars

\* A corrector tick ran during a seek sync with the main track playing, sync
\* enabled and a track drifted beyond the threshold, and changed nothing.
C32_Witness ==
  /\ last.kind = "CorrectTick"
  /\ ~disabled /\ ~paused[mainElement] /\ isSyncingSeeking
  /\ driftedTracks(St) # {}
  /\ driftSamples = <<>> /\ acts = <<>>

\* The sample the sampler tick of this step appended, if it appended one.
Sampled == last'.kind = "SampleTick" /\ Len(driftSamples') = Len(driftSamples) + 1

NewSample == driftSamples'[Len(driftSamples')]

\* C33: every drift sample holds exactly one entry per track of the group:
\* for the main track delta 0 and ended false, also when the main track is at
\* its own end; for a non-main track that has ended, ended true and no delta;
\* for every other track ended false and delta = the track's position minus
\* the main track's position at the tick, in milliseconds.
C33_SampleShape ==
  [][Sampled =>
       /\ NewSample.type = "sample"
       /\ NewSample.currentTime = currentTime[mainElement]
       /\ DOMAIN NewSample.drifts = Tracks
       /\ NewSample.drifts[mainElement] = [ended |-> FALSE, delta |-> <<0>>]
       /\ \A t \in Tracks \ {mainElement} :
            NewSample.drifts[t] =
              IF AtEnd(t) THEN [ended |-> TRUE, delta |-> <<>>]
              ELSE [ended |-> FALSE,
                    delta |-> <<currentTime[t] - currentTime[mainElement]>>]]_vars

\* A sample was taken while the main track stood at its end, still playing,
\* with another track behind it.
C33_Witness ==
  /\ last.kind = "SampleTick" /\ driftSamples # <<>>
  /\ AtEnd(mainElement)
  /\ LET smp == driftSamples[Len(driftSamples)]
     IN /\ smp.type = "sample"
        /\ smp.drifts[mainElement] = [ended |-> FALSE, delta |-> <<0>>]
        /\ \E t \in Tracks \ {mainElement} :
             /\ ~smp.drifts[t].ended
             /\ smp.drifts[t].delta = <<currentTime[t] - currentTime[mainElement]>>
             /\ currentTime[t] # currentTime[mainElement]

\* A sample was taken while a non-main track had ended and the main track
\* had not.
C33_EndedTrackSampled ==
  /\ last.kind = "SampleTick" /\ driftSamples # <<>>
  /\ ~AtEnd(mainElement)
  /\ \E t \in Tracks \ {mainElement} :
       /\ AtEnd(t)
       /\ driftSamples[Len(driftSamples)].drifts[t] = [ended |-> TRUE, delta |-> <<>>]

\* ------------------------------------------------- buffering while disabled
\* A group that carries the disabled attribute from the start: users start
\* its tracks one by one, the elements load, stall and reach their ends.
InitOffReady ==
  /\ InitElements /\ InitProgram
  /\ InitRunWith(MaxStimuli + 1)
  /\ disabled = TRUE
  /\ autoplayBlocked = {}

NextOffReady ==
  \/ \E t \in Tracks : UserPlay(t)
  \/ \E t \in Tracks, level \in ReadyStates : SetReady(t, level)
  \/ \E t \in Tracks : ReachEnd(t)
  \/ \E t \in Tracks : DeliverNative(t)
  \/ InitTimerFire

SpecOffReady == InitOffReady /\ [][NextOffReady]_vars

\* The task of this step delivered a waiting, ended or buffering event of a
\* track.
ReadinessEventDelivered ==
  /\ last'.kind = "Native"
  /\ last'.ev \in BufferingEvents \cup {"waiting", "ended"}

\* C34: while disabled is true, a waiting, ended or buffering event from a
\* track leaves isWaitingForData and lastReadyState unchanged, pauses no
\* track and dispatches no group-level event.
C34_DisabledReadinessInert ==
  [][(disabled /\ ReadinessEventDelivered)
       => /\ isWaitingForData' = isWaitingForData
          /\ lastReadyState' = lastReadyState
          /\ acts' = <<>>
          /\ paused' = paused
          /\ dispatched' = <<>>]_vars

\* The task of this step ran the continuation of a playTracks call: every
\* play() promise it awaited has resolved (the call sets its re-enable timer).
PlaySettled == playTimers' = playTimers + 1

\* C35: after a play was propagated, from a track's play event or from the
\* group's play(), with sync enabled: once every play() promise of the call
\* has resolved and every track reports not paused, both drift timers are
\* running; if a track still reports paused at that moment, the call starts
\* neither timer.
C35_DriftStartsWhenAllPlay ==
  [][(PlaySettled /\ ~disabled')
       => IF \A t \in Tracks : ~paused'[t]
            THEN driftSamplingIntervalId' /\ driftCorrectionIntervalId'
            ELSE ~DriftTimerStarted]_vars

\* The promise of the last mirrored play() resolved with every track playing
\* and started both timers.
C35_Witness ==
  /\ last.kind = "Native" /\ last.ev = "resolved"
  /\ playTimers > 0 /\ playOps = <<>>
  /\ ~disabled
  /\ \A t \in Tracks : ~paused[t]
  /\ driftSamplingIntervalId /\ driftCorrectionIntervalId
  /\ driftSamples = <<>>

\* The promises of a play resolved while a track was paused again, and no
\* timer runs.
C35_PausedAtSettle ==
  /\ last.kind = "Native" /\ last.ev = "resolved"
  /\ playTimers > 0 /\ playOps = <<>>
  /\ ~disabled
  /\ \E t \in Tracks : paused[t]
  /\ ~driftSamplingIntervalId /\ ~driftCorrectionIntervalId

\* C36: at every moment at most one drift sampling interval and at most one
\* drift correction interval exist: a start while the process already runs
\* creates no second interval, and every interval that was created is
\* cleared by the next stop, so the host holds a live interval of a process
\* exactly while the coordinator holds its id.
C36_OneIntervalEach ==
  /\ intervals.sampling = (IF driftSamplingIntervalId THEN 1 ELSE 0)
  /\ intervals.correction = (IF driftCorrectionIntervalId THEN 1 ELSE 0)

\* The group was played through its API a second time while both drift
\* processes ran (a sample had been taken, no stimulus but the two plays):
\* the continuation of the second play called both starts again.
C36_Witness ==
  /\ stim.task.kind = "GroupPlay" /\ budget = MaxStimuli - 1
  /\ last.kind = "Native" /\ last.ev = "resolved"
  /\ playOps = <<>> /\ playTimers > 0
  /\ driftSamples # <<>>
  /\ \A t \in Tracks : ~paused[t]
  /\ driftSamplingIntervalId /\ driftCorrectionIntervalId
  /\ intervals = [sampling |-> 1, correction |-> 1]

\* ------------------------------------------------------- repeated group seeks
\* The group's currentTime is set several times in close succession.
InitReseek == InitSettled("running") /\ InitRunWith(MaxStimuli)

NextReseek ==
  \/ \E x \in SeekTargets : GroupSeek(x)
  \/ \E t \in Tracks : DeliverNative(t)
  \/ \E t \in Tracks : DebounceFire(t)
  \/ SeekTimerFire
  \/ Tick

SpecReseek == InitReseek /\ [][NextReseek]_vars

\* C37: when seekTracks is invoked again before the re-enable timer of an
\* earlier invocation has fired, isSyncingSeeking stays true and the seeking
\* event type stays suppressed on every track until the full delay after the
\* latest invocation has elapsed, that is, while a timer of seekTracks has
\* time left to run.
C37_SeekWindowExtends ==
  (\E i \in 1..Len(seekTimers) : seekTimers[i] > 0)
    => /\ isSyncingSeeking
       /\ \A t \in Tracks : ~emitEvents[t]["seeking"]

\* -------------------------------------------------------- repeated initialize
\* initialize() is called once more on the elements of a group that
\* connectedCallback had set up; users then play, pause and seek tracks.
Initialize ==
  /\ ~stale.on
  /\ Stimulus(initialize(Fresh), Task("Initialize", 0, "", 0))

InitReinit == InitSettled("running") /\ InitRunWith(MaxStimuli)

\* The debounced handlers run while the elements' task queues are short: the
\* seeks that the two generations of wrappers mirror onto each other would
\* otherwise queue seeking events without bound.
MaxQueue == 2

QueuesShort == \A t \in Tracks : Len(nativeQ[t]) < MaxQueue

NextReinit ==
  \/ Initialize
  \/ \E t \in Tracks : UserPlay(t)
  \/ \E t \in Tracks : UserPause(t)
  \/ \E t \in Tracks, x \in SeekTargets : UserSeek(t, x)
  \/ \E t \in Tracks : DeliverNative(t)
  \/ \E t \in Tracks : QueuesShort /\ StaleDebounceFire(t)
  \/ \E t \in Tracks : QueuesShort /\ DebounceFire(t)
  \/ SeekTimerFire
  \/ PauseTimerFire
  \/ PlayTimerFire
  \/ InitTimerFire
  \/ Tick

SpecReinit == InitReinit /\ [][NextReinit]_vars

\* The task of this step handed a play, pause or seeking event of a track to
\* the listeners of its wrappers.
TransportEventDelivered ==
  \/ last'.kind = "Native" /\ last'.ev \in {"play", "pause"}
  \/ last'.kind \in {"Debounce", "StaleDebounce"}

\* C38: after initialize was called more than once on the same elements, the
\* coordinator acts on the events of exactly one wrapper per element: a play,
\* pause or seeking event of an element is never mirrored back onto that
\* element and is handled once (at most one group-level event, at most one
\* mirrored call per track).
C38_ReinitializedMirrorsOnce ==
  [][TransportEventDelivered
       => /\ ~MirroredOn(acts', last'.ev, last'.track)
          /\ Len(dispatched') <= 1
          /\ \A i, j \in 1..Len(acts') :
               (acts'[i][1] = acts'[j][1] /\ acts'[i][2] = acts'[j][2]) => i = j]_vars

\* ------------------------------------------------- playing past a track's end
\* Tracks of different lengths play as a group (the state after play() has
\* settled); the group is sought to the ends of its tracks, users pause
\* tracks, and the drift corrector runs.
InitClampRun ==
  /\ paused = [t \in Tracks |-> FALSE]
  /\ currentTime = [t \in Tracks |-> 0]
  /\ playbackRate = [t \in Tracks |-> 1]
  /\ readyState = [t \in Tracks |-> HAVE_ENOUGH_DATA]
  /\ duration = [t \in Tracks |-> IF t = mainElement THEN 100000 ELSE 60000]
  /\ isMain = [t \in Tracks |-> setupIsMain(t, initializeMain)]
  /\ nativeQ = [t \in Tracks |-> <<>>]
  /\ emitEvents = [t \in Tracks |-> [e \in EventTypes |-> TRUE]]
  /\ debounceTimer = [t \in Tracks |-> NoTimer]
  /\ isSyncingSeeking = FALSE
  /\ audioContext = "running"
  /\ driftSamplingIntervalId = TRUE
  /\ driftCorrectionIntervalId = TRUE
  /\ driftSamples = <<>>
  /\ lastReadyState = HAVE_ENOUGH_DATA
  /\ isWaitingForData = FALSE
  /\ seekTimers = <<>> /\ rateTimers = <<>>
  /\ pauseTimers = 0 /\ playTimers = 0
  /\ initTimer = FALSE
  /\ playOps = <<>> /\ resumeOps = <<>>
  /\ disabled = FALSE
  /\ autoplayBlocked = {}
  /\ InitRunWith(MaxStimuli)

NextClampRun ==
  \/ \E x \in {x \in ClampTargets : \E t \in Tracks : x = duration[t]} : GroupSeek(x)
  \/ \E t \in Tracks : UserPause(t)
  \/ \E t \in Tracks : DeliverNative(t)
  \/ \E t \in Tracks : DebounceFire(t)
  \/ SeekTimerFire
  \/ PauseTimerFire
  \/ Tick
  \/ CorrectTick

SpecClampRun == InitClampRun /\ [][NextClampRun]_vars

\* The setter of track t has clamped: the track stands where a target at or
\* beyond its duration puts it.
Clamped(t) ==
  /\ duration[t] >= END_CLAMP_MS
  /\ currentTime[t] = duration[t] - END_CLAMP_MS

\* C39: after the setter of a track of at least 0.05 s was called with a
\* target at or beyond the track's duration, the track's ended predicate
\* |currentTime - duration| < 0.1 s is true; hence a correction tick seeks no
\* clamped track, and a pause event of a clamped track pauses no other track
\* and dispatches no group-level event.
C39_ClampedCountsAsEnded ==
  [][/\ \A i \in 1..Len(acts') :
          (/\ acts'[i][1] = "seek"
           /\ duration[acts'[i][2]] >= END_CLAMP_MS
           /\ acts'[i][3] >= duration[acts'[i][2]])
            => Abs(currentTime'[acts'[i][2]] - duration[acts'[i][2]]) < ENDED_EPSILON_MS
     /\ last'.kind = "CorrectTick"
          => \A t \in Tracks : Clamped(t) => ~MirroredOn(acts', "seeking", t)
     /\ (last'.kind = "Native" /\ last'.ev = "pause" /\ Clamped(last'.track))
          => acts' = <<>> /\ dispatched' = <<>>]_vars

\* A user paused a playing track that a group seek had clamped 0.05 s before
\* its end while the main track, which is longer, stood beyond the drift
\* threshold from it: the pause event was relayed and nothing was mirrored.
C39_Witness ==
  /\ last.kind = "Native" /\ last.ev = "pause" /\ last.gate
  /\ stim.task.kind = "UserPause" /\ stim.task.track = last.track
  /\ last.track # mainElement
  /\ Clamped(last.track)
  /\ ~disabled
  /\ ~paused[mainElement]
  /\ Abs(currentTime[last.track] - currentTime[mainElement]) > DRIFT_CORRECTION_THRESHOLD
  /\ acts = <<>> /\ dispatched = <<>>

\* A correction tick ran while a playing track stood clamped, beyond the
\* drift threshold from the playing main track, and corrected nothing.
C39_CorrectionSkipsClamped ==
  /\ last.kind = "CorrectTick"
  /\ ~disabled /\ ~isSyncingSeeking /\ ~paused[mainElement]
  /\ \E t \in Tracks \ {mainElement} :
       /\ Clamped(t)
       /\ Abs(currentTime[t] - currentTime[mainElement]) > DRIFT_CORRECTION_THRESHOLD
  /\ acts = <<>>

\* ------------------------------------------------------------ one user seek
\* One user seeks one track of a settled group.  The event loop keeps
\* running: a queued media-element task or a due timer is not left waiting
\* for ever, and time passes while a timer is pending.
InitEcho == InitSettled("running") /\ InitRunWith(1)

InternalEcho ==
  \/ \E t \in Tracks : DeliverNative(t)
  \/ \E t \in Tracks : DebounceFire(t)
  \/ SeekTimerFire
  \/ Tick

NextEcho ==
  \/ \E t \in Tracks, x \in SeekTargets : UserSeek(t, x)
  \/ InternalEcho

FairEcho ==
  /\ WF_vars(InternalEcho)
  /\ \A t \in Tracks : WF_vars(DeliverNative(t))
  /\ \A t \in Tracks : WF_vars(DebounceFire(t))
  /\ WF_vars(SeekTimerFire)
  /\ WF_vars(Tick)

SpecEcho == InitEcho /\ [][NextEcho]_vars /\ FairEcho

\* The task that ran last set the currentTime of a track.
SeekMirrored == \E i \in 1..Len(acts) : acts[i][1] = "seek"

\* C40: one user seek causes only finitely many mirrored currentTime sets,
\* also when the native seeking events of the mirrored sets are delivered
\* after the seeking gate was re-enabled and isSyncingSeeking was cleared:
\* from some moment on no task sets a track's currentTime any more.
C40_SeekEchoesDieOut == <>[](~SeekMirrored)
====
